---------------------------- MODULE Spec2Model ----------------------------
(***************************************************************************)
(* A model of the orb-predicates engine: the nine OGC / DE-9IM predicates  *)
(* (Within, Contains, Covers, CoveredBy, Intersects, Disjoint, Crosses,    *)
(* Overlaps, Touches) over the nine orb geometry variants.                 *)
(*                                                                         *)
(* Numbers.  The source computes in float64 with one absolute tolerance    *)
(* epsilon = 1e-10.  The model computes exactly, in integers: a coordinate *)
(* c of the source is the integer c * Unit.  The operands are drawn from   *)
(* the integer grid (multiples of Unit), but for one MultiPolygon with two *)
(* sides at multiples of Unit / 42, and Unit is chosen so that every       *)
(* point the source derives from them (segment midpoints, ring centroids,  *)
(* the 1/50 samples, the y-level probes, overlap midpoints) is again an    *)
(* integer.  epsilon * Unit is far below 1, so for the integers x, m of    *)
(* the model                                                               *)
(*      x >  m + epsilon   is  x > m        x >= m - epsilon  is  x >= m   *)
(*      |x - m| < epsilon  is  x = m                                       *)
(* The two small displacements of the source (the 1e-5 probe of            *)
(* polygonInteriorsIntersect and the 1e-4 parameter offset of              *)
(* lineStringWithinMultiPolygon) are far above epsilon and far below the   *)
(* spacing of the derived points, so a displaced point is kept as a pair   *)
(* (point, direction) and compared lexicographically: first the point,     *)
(* and the direction only where the point gives a tie.                     *)
(***************************************************************************)
EXTENDS Integers, Sequences, FiniteSets, TLC

\* Largest translation (in grid steps, on each axis) applied to operand b.
MaxShift == 1

\* within.go: const numSamples = 50
numSamples == 50

\* Integer resolution of the model: divisible by 2 (midpoints), by every ring
\* length in use (centroids), by numSamples and by twice every grid difference
\* (overlap midpoints and y-level probes).
Unit == 2 * numSamples * 42

VARIABLES
    ia,      \* index of operand a in the catalogue
    ib,      \* index of operand b in the catalogue
    sh,      \* translation <<dx, dy>> of operand b, in grid steps
    onb,     \* what the point-in-ring oracle answers on a ring's boundary
    op,      \* the predicate last called ("none" before any call)
    out      \* its result

vars == <<ia, ib, sh, onb, op, out>>

---------------------------------------------------------------------------
(* helpers.go: numeric and segment primitives                              *)

Abs(x) == IF x < 0 THEN -x ELSE x

min(x, y) == IF x < y THEN x ELSE y

max(x, y) == IF x > y THEN x ELSE y

\* The zero direction: an ordinary (undisplaced) point.
Zero == <<0, 0>>

\* sign of base + delta * coef for a positive delta below the model's resolution
LexSign(base, coef) ==
    IF base < 0 THEN -1
    ELSE IF base > 0 THEN 1
    ELSE IF coef < 0 THEN -1
    ELSE IF coef > 0 THEN 1
    ELSE 0

sign(x) == IF x < 0 THEN -1 ELSE IF x > 0 THEN 1 ELSE 0

cross2D(p1, p2, p3) ==
    (p2[1] - p1[1]) * (p3[2] - p1[2]) - (p2[2] - p1[2]) * (p3[1] - p1[1])

\* cross2D(a, b, p + delta * d): its sign
crossSignD(a, b, p, d) ==
    LexSign(cross2D(a, b, p), (b[1] - a[1]) * d[2] - (b[2] - a[2]) * d[1])

pointsEqual(p1, p2) == p1[1] = p2[1] /\ p1[2] = p2[2]

\* pointOnSegment for the displaced point p + delta * d
pointOnSegmentD(p, d, a, b) ==
    /\ crossSignD(a, b, p, d) = 0
    /\ LexSign(p[1] - min(a[1], b[1]), d[1]) >= 0
    /\ LexSign(p[1] - max(a[1], b[1]), d[1]) <= 0
    /\ LexSign(p[2] - min(a[2], b[2]), d[2]) >= 0
    /\ LexSign(p[2] - max(a[2], b[2]), d[2]) <= 0

pointOnSegment(p, a, b) == pointOnSegmentD(p, Zero, a, b)

pointOnSegmentInterior(p, a, b) ==
    IF pointsEqual(p, a) \/ pointsEqual(p, b) THEN FALSE
    ELSE pointOnSegment(p, a, b)

\* (d1 > 0 && d2 < 0) || (d1 < 0 && d2 > 0)
Straddle(d1, d2) == (d1 > 0 /\ d2 < 0) \/ (d1 < 0 /\ d2 > 0)

segmentsCrossProper(p1, p2, p3, p4) ==
    /\ Straddle(sign(cross2D(p3, p4, p1)), sign(cross2D(p3, p4, p2)))
    /\ Straddle(sign(cross2D(p1, p2, p3)), sign(cross2D(p1, p2, p4)))

segmentsIntersect(p1, p2, p3, p4) ==
    LET d1 == sign(cross2D(p3, p4, p1))
        d2 == sign(cross2D(p3, p4, p2))
        d3 == sign(cross2D(p1, p2, p3))
        d4 == sign(cross2D(p1, p2, p4))
    IN  \/ Straddle(d1, d2) /\ Straddle(d3, d4)
        \/ d1 = 0 /\ pointOnSegment(p1, p3, p4)
        \/ d2 = 0 /\ pointOnSegment(p2, p3, p4)
        \/ d3 = 0 /\ pointOnSegment(p3, p1, p2)
        \/ d4 = 0 /\ pointOnSegment(p4, p1, p2)

segmentsOverlapInterior(p1, p2, p3, p4) ==
    LET horizontal == Abs(p2[1] - p1[1]) > Abs(p2[2] - p1[2])
        k  == IF horizontal THEN 1 ELSE 2
        t1 == min(p1[k], p2[k])
        t2 == max(p1[k], p2[k])
        t3 == min(p3[k], p4[k])
        t4 == max(p3[k], p4[k])
    IN  min(t2, t4) - max(t1, t3) > 0

segmentsAreCollinear(p1, p2, p3, p4) ==
    /\ sign(cross2D(p3, p4, p1)) = 0
    /\ sign(cross2D(p3, p4, p2)) = 0
    /\ sign(cross2D(p1, p2, p3)) = 0
    /\ sign(cross2D(p1, p2, p4)) = 0

segmentsIntersectInterior(p1, p2, p3, p4) ==
    \/ segmentsCrossProper(p1, p2, p3, p4)
    \/ /\ segmentsAreCollinear(p1, p2, p3, p4)
       /\ segmentsOverlapInterior(p1, p2, p3, p4)

\* The midpoint the source writes as {(a[0]+b[0])/2, (a[1]+b[1])/2}
Mid(a, b) == <<(a[1] + b[1]) \div 2, (a[2] + b[2]) \div 2>>

pointOnRingBoundaryD(p, d, r) ==
    /\ Len(r) >= 2
    /\ \E i \in 1..(Len(r) - 1) : pointOnSegmentD(p, d, r[i], r[i + 1])

pointOnRingBoundary(p, r) == pointOnRingBoundaryD(p, Zero, r)

pointOnPolygonBoundaryD(p, d, poly) ==
    \E k \in 1..Len(poly) : pointOnRingBoundaryD(p, d, poly[k])

pointOnPolygonBoundary(p, poly) == pointOnPolygonBoundaryD(p, Zero, poly)

---------------------------------------------------------------------------
(* The collaborators of github.com/paulmach/orb: the point-in-ring and     *)
(* point-in-polygon oracle of orb/planar and the Bound of every variant.   *)

\* A geometry is a record [t |-> variant, v |-> value]:
\*   Point            v = <<x, y>>
\*   MultiPoint       v = sequence of points
\*   LineString       v = sequence of points
\*   MultiLineString  v = sequence of sequences of points
\*   Ring             v = sequence of points
\*   Polygon          v = sequence of rings, the exterior first
\*   MultiPolygon     v = sequence of polygons
\*   Collection       v = sequence of geometries
\*   Bound            v = [Min |-> point, Max |-> point]
Geom(t, v) == [t |-> t, v |-> v]

\* planar.RingContains for the displaced point p + delta * d: the even-odd
\* rule over the edges of r and the closing edge r[len-1] -> r[0]; a point on
\* one of these edges gets the oracle's boundary answer onb.
RingContainsD(r, p, d) ==
    LET n == Len(r)
        E(i) == IF i = n THEN r[1] ELSE r[i + 1]
        Above(q) == LexSign(p[2] - q[2], d[2]) < 0
        Hit(i) ==
            /\ Above(r[i]) # Above(E(i))
            /\ IF Above(E(i)) THEN crossSignD(r[i], E(i), p, d) > 0
                              ELSE crossSignD(r[i], E(i), p, d) < 0
    IN  IF n = 0 THEN FALSE
        ELSE IF \E i \in 1..n : pointOnSegmentD(p, d, r[i], E(i)) THEN onb
        ELSE Cardinality({i \in 1..n : Hit(i)}) % 2 = 1

RingContains(r, p) == RingContainsD(r, p, Zero)

\* planar.PolygonContains: inside the exterior ring and inside no hole.  The
\* source indexes p[0] without a length check.
PolygonContainsD(poly, p, d) ==
    /\ RingContainsD(poly[1], p, d)
    /\ \A k \in 2..Len(poly) : ~RingContainsD(poly[k], p, d)

PolygonContains(poly, p) == PolygonContainsD(poly, p, Zero)

\* orb's emptyBound: Min {1, 1}, Max {-1, -1}
emptyBound == [Min |-> <<Unit, Unit>>, Max |-> <<0 - Unit, 0 - Unit>>]

\* Bound.IsEmpty
BoundIsEmpty(b) == b.Min[1] > b.Max[1] \/ b.Min[2] > b.Max[2]

\* Bound.Contains
BoundContains(b, p) ==
    /\ ~(p[2] < b.Min[2] \/ b.Max[2] < p[2])
    /\ ~(p[1] < b.Min[1] \/ b.Max[1] < p[1])

\* Bound.Extend
BoundExtend(b, p) ==
    IF BoundContains(b, p) THEN b
    ELSE [Min |-> <<min(b.Min[1], p[1]), min(b.Min[2], p[2])>>,
          Max |-> <<max(b.Max[1], p[1]), max(b.Max[2], p[2])>>]

\* Bound.Union
BoundUnion(b, o) ==
    IF BoundIsEmpty(o) THEN b
    ELSE BoundExtend(BoundExtend(BoundExtend(BoundExtend(b, o.Min), o.Max),
                                 <<o.Min[1], o.Max[2]>>),
                     <<o.Max[1], o.Min[2]>>)

\* MultiPoint.Bound, LineString.Bound, Ring.Bound
PointsBound(pts) ==
    LET RECURSIVE ExtendAll(_, _)
        ExtendAll(b, i) ==
            IF i > Len(pts) THEN b ELSE ExtendAll(BoundExtend(b, pts[i]), i + 1)
    IN  IF Len(pts) = 0 THEN emptyBound
        ELSE ExtendAll([Min |-> pts[1], Max |-> pts[1]], 1)

\* The Bound of a sequence of member bounds (MultiLineString, MultiPolygon,
\* Collection): the first member's bound, united with the others in order.
MembersBound(bs) ==
    LET RECURSIVE UnionAll(_, _)
        UnionAll(b, i) ==
            IF i > Len(bs) THEN b ELSE UnionAll(BoundUnion(b, bs[i]), i + 1)
    IN  IF Len(bs) = 0 THEN emptyBound ELSE UnionAll(bs[1], 2)

\* Polygon.Bound: the bound of the exterior ring
PolygonBound(poly) ==
    IF Len(poly) = 0 THEN emptyBound ELSE PointsBound(poly[1])

\* Geometry.Bound
RECURSIVE GeomBound(_)
GeomBound(g) ==
    CASE g.t = "Point" -> [Min |-> g.v, Max |-> g.v]
      [] g.t \in {"MultiPoint", "LineString", "Ring"} -> PointsBound(g.v)
      [] g.t = "MultiLineString" ->
            MembersBound([i \in 1..Len(g.v) |-> PointsBound(g.v[i])])
      [] g.t = "Polygon" -> PolygonBound(g.v)
      [] g.t = "MultiPolygon" ->
            MembersBound([i \in 1..Len(g.v) |-> PolygonBound(g.v[i])])
      [] g.t = "Collection" ->
            MembersBound([i \in 1..Len(g.v) |-> GeomBound(g.v[i])])
      [] g.t = "Bound" -> g.v

---------------------------------------------------------------------------
(* helpers.go: membership primitives                                       *)

pointInRingInterior(p, r) ==
    IF pointOnRingBoundary(p, r) THEN FALSE ELSE RingContains(r, p)

\* The point-in-polygon oracle alone, without the boundary test before it.
pointInPolygonOracleD(p, d, poly) == PolygonContainsD(poly, p, d)

pointInPolygonInteriorD(p, d, poly) ==
    IF pointOnPolygonBoundaryD(p, d, poly) THEN FALSE
    ELSE PolygonContainsD(poly, p, d)

pointInPolygonInterior(p, poly) == pointInPolygonInteriorD(p, Zero, poly)

\* The source's "planar.RingContains(r, p) || pointOnRingBoundary(p, r)"
InRingClosure(p, r) == RingContains(r, p) \/ pointOnRingBoundary(p, r)

\* The source's "planar.PolygonContains(poly, p) || pointOnPolygonBoundary(p, poly)"
InPolygonClosureD(p, d, poly) ==
    PolygonContainsD(poly, p, d) \/ pointOnPolygonBoundaryD(p, d, poly)

InPolygonClosure(p, poly) == InPolygonClosureD(p, Zero, poly)

ringBoundariesIntersect(r1, r2) ==
    \E i \in 1..(Len(r1) - 1) : \E j \in 1..(Len(r2) - 1) :
        segmentsIntersect(r1[i], r1[i + 1], r2[j], r2[j + 1])

ringsIntersect(r1, r2) ==
    \/ ringBoundariesIntersect(r1, r2)
    \/ Len(r1) > 0 /\ RingContains(r2, r1[1])
    \/ Len(r2) > 0 /\ RingContains(r1, r2[1])

boundingBoxOverlap(a, b) ==
    LET ba == GeomBound(a)
        bb == GeomBound(b)
    IN  /\ ba.Min[1] <= bb.Max[1]
        /\ ba.Max[1] >= bb.Min[1]
        /\ ba.Min[2] <= bb.Max[2]
        /\ ba.Max[2] >= bb.Min[2]

boundToPolygon(b) ==
    << << <<b.Min[1], b.Min[2]>>, <<b.Max[1], b.Min[2]>>, <<b.Max[1], b.Max[2]>>,
          <<b.Min[1], b.Max[2]>>, <<b.Min[1], b.Min[2]>> >> >>

boundContainsPoint(b, p) ==
    /\ p[1] >= b.Min[1] /\ p[1] <= b.Max[1]
    /\ p[2] >= b.Min[2] /\ p[2] <= b.Max[2]

boundContainsPointInterior(b, p) ==
    /\ p[1] > b.Min[1] /\ p[1] < b.Max[1]
    /\ p[2] > b.Min[2] /\ p[2] < b.Max[2]

pointOnBoundBoundary(p, b) ==
    /\ boundContainsPoint(b, p)
    /\ \/ p[1] = b.Min[1] \/ p[1] = b.Max[1]
       \/ p[2] = b.Min[2] \/ p[2] = b.Max[2]

RECURSIVE getGeometryDimension(_)
getGeometryDimension(g) ==
    CASE g.t \in {"Point", "MultiPoint"} -> 0
      [] g.t \in {"LineString", "MultiLineString"} -> 1
      [] g.t \in {"Ring", "Polygon", "MultiPolygon", "Bound"} -> 2
      [] g.t = "Collection" ->
            LET D == {getGeometryDimension(g.v[i]) : i \in 1..Len(g.v)}
            IN  IF D = {} THEN -1 ELSE CHOOSE m \in D : \A x \in D : x <= m

\* An isEmpty that never takes a Bound for empty.
isEmptyButBound(g) ==
    CASE g.t \in {"Point", "Bound"} -> FALSE
      [] g.t \in {"MultiPoint", "LineString", "MultiLineString", "Ring",
                  "MultiPolygon", "Collection"} -> Len(g.v) = 0
      [] g.t = "Polygon" -> Len(g.v) = 0 \/ Len(g.v[1]) = 0

isEmpty(g) ==
    CASE g.t = "Point" -> FALSE
      [] g.t \in {"MultiPoint", "LineString", "MultiLineString", "Ring",
                  "MultiPolygon", "Collection"} -> Len(g.v) = 0
      [] g.t = "Polygon" -> Len(g.v) = 0 \/ Len(g.v[1]) = 0
      [] g.t = "Bound" -> BoundIsEmpty(g.v)

ringCentroid(r) ==
    LET n == Len(r)
        RECURSIVE Sum(_, _)
        Sum(k, i) == IF i > n THEN 0 ELSE r[i][k] + Sum(k, i + 1)
    IN  IF n = 0 THEN <<0, 0>> ELSE <<Sum(1, 1) \div n, Sum(2, 1) \div n>>

---------------------------------------------------------------------------
(* intersects.go                                                           *)

\* A pointIntersectsLineString that only looks at the vertices and misses
\* the points strictly inside a segment.
pointIntersectsLineStringVertices(p, ls) ==
    \E i \in 1..Len(ls) : pointsEqual(p, ls[i])

pointIntersectsLineString(p, ls) ==
    IF Len(ls) = 0 THEN FALSE
    ELSE IF Len(ls) = 1 THEN pointsEqual(p, ls[1])
    ELSE \E i \in 1..(Len(ls) - 1) : pointOnSegment(p, ls[i], ls[i + 1])

RECURSIVE intersectsPoint(_, _)
intersectsPoint(p, b) ==
    CASE b.t = "Point" -> pointsEqual(p, b.v)
      [] b.t = "MultiPoint" -> \E i \in 1..Len(b.v) : pointsEqual(p, b.v[i])
      [] b.t = "LineString" -> pointIntersectsLineString(p, b.v)
      [] b.t = "MultiLineString" ->
            \E i \in 1..Len(b.v) : pointIntersectsLineString(p, b.v[i])
      [] b.t = "Ring" -> InRingClosure(p, b.v)
      [] b.t = "Polygon" -> InPolygonClosure(p, b.v)
      [] b.t = "MultiPolygon" ->
            \E i \in 1..Len(b.v) : InPolygonClosure(p, b.v[i])
      [] b.t = "Collection" -> \E i \in 1..Len(b.v) : intersectsPoint(p, b.v[i])
      [] b.t = "Bound" -> boundContainsPoint(b.v, p)

lineStringIntersectsRingOrInterior(ls, r) ==
    \/ ringBoundariesIntersect(ls, r)
    \/ \E i \in 1..Len(ls) : RingContains(r, ls[i])

lineStringIntersectsPolygon(ls, poly) ==
    IF Len(poly) = 0 THEN FALSE
    ELSE \/ \E k \in 1..Len(poly) : ringBoundariesIntersect(ls, poly[k])
         \/ \E i \in 1..Len(ls) : PolygonContains(poly, ls[i])

RECURSIVE intersectsLineString(_, _)
intersectsLineString(ls, b) ==
    CASE b.t = "Point" -> pointIntersectsLineString(b.v, ls)
      [] b.t = "MultiPoint" ->
            \E i \in 1..Len(b.v) : pointIntersectsLineString(b.v[i], ls)
      [] b.t = "LineString" -> ringBoundariesIntersect(ls, b.v)
      [] b.t = "MultiLineString" ->
            \E i \in 1..Len(b.v) : ringBoundariesIntersect(ls, b.v[i])
      [] b.t = "Ring" -> lineStringIntersectsRingOrInterior(ls, b.v)
      [] b.t = "Polygon" -> lineStringIntersectsPolygon(ls, b.v)
      [] b.t = "MultiPolygon" ->
            \E i \in 1..Len(b.v) : lineStringIntersectsPolygon(ls, b.v[i])
      [] b.t = "Collection" ->
            \E i \in 1..Len(b.v) : intersectsLineString(ls, b.v[i])
      [] b.t = "Bound" -> lineStringIntersectsPolygon(ls, boundToPolygon(b.v))

ringIntersectsPolygon(r, poly) ==
    IF Len(poly) = 0 THEN FALSE
    ELSE \/ \E k \in 1..Len(poly) : ringBoundariesIntersect(r, poly[k])
         \/ Len(r) > 0 /\ PolygonContains(poly, r[1])
         \/ Len(poly[1]) > 0 /\ RingContains(r, poly[1][1])

RECURSIVE intersectsRing(_, _)
intersectsRing(r, b) ==
    CASE b.t = "Point" -> InRingClosure(b.v, r)
      [] b.t = "MultiPoint" -> \E i \in 1..Len(b.v) : InRingClosure(b.v[i], r)
      [] b.t = "LineString" -> lineStringIntersectsRingOrInterior(b.v, r)
      [] b.t = "MultiLineString" ->
            \E i \in 1..Len(b.v) : lineStringIntersectsRingOrInterior(b.v[i], r)
      [] b.t = "Ring" -> ringsIntersect(r, b.v)
      [] b.t = "Polygon" -> ringIntersectsPolygon(r, b.v)
      [] b.t = "MultiPolygon" ->
            \E i \in 1..Len(b.v) : ringIntersectsPolygon(r, b.v[i])
      [] b.t = "Collection" -> \E i \in 1..Len(b.v) : intersectsRing(r, b.v[i])
      [] b.t = "Bound" -> ringIntersectsPolygon(r, boundToPolygon(b.v))

polygonsIntersect(p1, p2) ==
    IF Len(p1) = 0 \/ Len(p2) = 0 THEN FALSE
    ELSE \/ \E i \in 1..Len(p1) : \E j \in 1..Len(p2) :
                ringBoundariesIntersect(p1[i], p2[j])
         \/ Len(p1[1]) > 0 /\ PolygonContains(p2, p1[1][1])
         \/ Len(p2[1]) > 0 /\ PolygonContains(p1, p2[1][1])

RECURSIVE intersectsPolygon(_, _)
intersectsPolygon(poly, b) ==
    CASE b.t = "Point" -> InPolygonClosure(b.v, poly)
      [] b.t = "MultiPoint" ->
            \E i \in 1..Len(b.v) : InPolygonClosure(b.v[i], poly)
      [] b.t = "LineString" -> lineStringIntersectsPolygon(b.v, poly)
      [] b.t = "MultiLineString" ->
            \E i \in 1..Len(b.v) : lineStringIntersectsPolygon(b.v[i], poly)
      [] b.t = "Ring" -> ringIntersectsPolygon(b.v, poly)
      [] b.t = "Polygon" -> polygonsIntersect(poly, b.v)
      [] b.t = "MultiPolygon" ->
            \E i \in 1..Len(b.v) : polygonsIntersect(poly, b.v[i])
      [] b.t = "Collection" ->
            \E i \in 1..Len(b.v) : intersectsPolygon(poly, b.v[i])
      [] b.t = "Bound" -> polygonsIntersect(poly, boundToPolygon(b.v))

RECURSIVE Intersects(_, _)
Intersects(a, b) ==
    IF ~boundingBoxOverlap(a, b) THEN FALSE
    ELSE IF isEmpty(a) \/ isEmpty(b) THEN FALSE
    ELSE CASE a.t = "Point" -> intersectsPoint(a.v, b)
           [] a.t = "MultiPoint" ->
                 \E i \in 1..Len(a.v) : intersectsPoint(a.v[i], b)
           [] a.t = "LineString" -> intersectsLineString(a.v, b)
           [] a.t = "MultiLineString" ->
                 \E i \in 1..Len(a.v) : intersectsLineString(a.v[i], b)
           [] a.t = "Ring" -> intersectsRing(a.v, b)
           [] a.t = "Polygon" -> intersectsPolygon(a.v, b)
           [] a.t = "MultiPolygon" ->
                 \E i \in 1..Len(a.v) : intersectsPolygon(a.v[i], b)
           [] a.t = "Collection" -> \E i \in 1..Len(a.v) : Intersects(a.v[i], b)
           [] a.t = "Bound" -> intersectsPolygon(boundToPolygon(a.v), b)

---------------------------------------------------------------------------
(* disjoint.go                                                             *)

\* A Disjoint that only compares the bounding boxes: it agrees with the
\* source whenever the boxes are apart, and differs when boxes overlap but
\* the geometries do not meet.
DisjointByBoxes(a, b) == ~boundingBoxOverlap(a, b)

Disjoint(a, b) == ~Intersects(a, b)

---------------------------------------------------------------------------
(* within.go                                                               *)

pointInLineStringInterior(p, ls) ==
    IF Len(ls) < 2 THEN FALSE
    ELSE \/ \E i \in 1..(Len(ls) - 1) : pointOnSegmentInterior(p, ls[i], ls[i + 1])
         \/ \E i \in 2..(Len(ls) - 1) : pointsEqual(p, ls[i])

RECURSIVE withinPoint(_, _)
withinPoint(p, b) ==
    CASE b.t = "Point" -> pointsEqual(p, b.v)
      [] b.t = "MultiPoint" -> \E i \in 1..Len(b.v) : pointsEqual(p, b.v[i])
      [] b.t = "LineString" -> pointInLineStringInterior(p, b.v)
      [] b.t = "MultiLineString" ->
            \E i \in 1..Len(b.v) : pointInLineStringInterior(p, b.v[i])
      [] b.t = "Ring" -> pointInRingInterior(p, b.v)
      [] b.t = "Polygon" -> pointInPolygonInterior(p, b.v)
      [] b.t = "MultiPolygon" ->
            \E i \in 1..Len(b.v) : pointInPolygonInterior(p, b.v[i])
      [] b.t = "Collection" -> \E i \in 1..Len(b.v) : withinPoint(p, b.v[i])
      [] b.t = "Bound" -> boundContainsPointInterior(b.v, p)

withinMultiPoint(mp, b) ==
    LET I == 1..Len(mp)
        J == 1..Len(b.v)
        OnLs(i) == {j \in J : pointIntersectsLineString(mp[i], b.v[j])}
        InPoly(i) == {j \in J : InPolygonClosure(mp[i], b.v[j])}
        \* the index at which a loop that breaks on its first match stops
        First(S) == CHOOSE i \in S : \A j \in S : i <= j
    IN  IF Len(mp) = 0 THEN FALSE
        ELSE CASE b.t = "Point" -> \A i \in I : pointsEqual(mp[i], b.v)
               [] b.t = "MultiPoint" ->
                     \A i \in I : \E j \in J : pointsEqual(mp[i], b.v[j])
               [] b.t = "LineString" ->
                     /\ \A i \in I : pointIntersectsLineString(mp[i], b.v)
                     /\ \E i \in I : pointInLineStringInterior(mp[i], b.v)
               [] b.t = "MultiLineString" ->
                     /\ \A i \in I : OnLs(i) # {}
                     /\ \E i \in I :
                            pointInLineStringInterior(mp[i], b.v[First(OnLs(i))])
               [] b.t = "Ring" ->
                     /\ \A i \in I : InRingClosure(mp[i], b.v)
                     /\ \E i \in I : pointInRingInterior(mp[i], b.v)
               [] b.t = "Polygon" ->
                     /\ \A i \in I : InPolygonClosure(mp[i], b.v)
                     /\ \E i \in I : pointInPolygonInterior(mp[i], b.v)
               [] b.t = "MultiPolygon" ->
                     /\ \A i \in I : InPoly(i) # {}
                     /\ \E i \in I :
                            pointInPolygonInterior(mp[i], b.v[First(InPoly(i))])
               [] b.t = "Collection" ->
                     \A i \in I : \E j \in J : withinPoint(mp[i], b.v[j])
               [] b.t = "Bound" ->
                     /\ \A i \in I : boundContainsPoint(b.v, mp[i])
                     /\ \E i \in I : boundContainsPointInterior(b.v, mp[i])

segmentCoversSegment(c1, c2, s1, s2) ==
    pointOnSegment(s1, c1, c2) /\ pointOnSegment(s2, c1, c2)

segmentCoveredByLineString(a, b, ls) ==
    \/ \E i \in 1..(Len(ls) - 1) : segmentCoversSegment(ls[i], ls[i + 1], a, b)
    \/ /\ pointIntersectsLineString(a, ls)
       /\ pointIntersectsLineString(b, ls)
       /\ pointIntersectsLineString(Mid(a, b), ls)

lineStringWithinLineString(ls1, ls2) ==
    IF Len(ls2) < 2 THEN FALSE
    ELSE /\ \A i \in 1..Len(ls1) : pointIntersectsLineString(ls1[i], ls2)
         /\ \A i \in 1..(Len(ls1) - 1) :
                segmentCoveredByLineString(ls1[i], ls1[i + 1], ls2)
         /\ \E i \in 1..(Len(ls1) - 1) :
                pointInLineStringInterior(Mid(ls1[i], ls1[i + 1]), ls2)

lineStringWithinMultiLineString(ls, mls) ==
    LET OnAny(p) == \E j \in 1..Len(mls) : pointIntersectsLineString(p, mls[j])
    IN  \/ \E j \in 1..Len(mls) : lineStringWithinLineString(ls, mls[j])
        \/ /\ \A i \in 1..Len(ls) : OnAny(ls[i])
           /\ \A i \in 1..(Len(ls) - 1) : OnAny(Mid(ls[i], ls[i + 1]))

lineStringWithinRing(ls, r) ==
    /\ \A i \in 1..Len(ls) : InRingClosure(ls[i], r)
    /\ \A i \in 1..(Len(ls) - 1) : InRingClosure(Mid(ls[i], ls[i + 1]), r)
    /\ \E i \in 1..(Len(ls) - 1) : pointInRingInterior(Mid(ls[i], ls[i + 1]), r)

lineStringWithinPolygon(ls, poly) ==
    IF Len(poly) = 0 THEN FALSE
    ELSE /\ \A i \in 1..Len(ls) : InPolygonClosure(ls[i], poly)
         /\ \A i \in 1..(Len(ls) - 1) :
                InPolygonClosure(Mid(ls[i], ls[i + 1]), poly)
         /\ \E i \in 1..(Len(ls) - 1) :
                pointInPolygonInterior(Mid(ls[i], ls[i + 1]), poly)

\* The vertices of every ring of every polygon of mp
Vertices(mp) ==
    UNION {UNION {{mp[j][k][m] : m \in 1..Len(mp[j][k])} : k \in 1..Len(mp[j])} :
           j \in 1..Len(mp)}

\* Within one component polygon alone, with no line spanning components.
lineStringWithinOneComponent(ls, mp) ==
    \E j \in 1..Len(mp) : lineStringWithinPolygon(ls, mp[j])

lineStringWithinMultiPolygon(ls, mp) ==
    LET pointInAnyPoly(p, d) ==
            \E j \in 1..Len(mp) : InPolygonClosureD(p, d, mp[j])
        Sample(a, b, k) ==
            <<a[1] + (k * (b[1] - a[1])) \div numSamples,
              a[2] + (k * (b[2] - a[2])) \div numSamples>>
        \* the point of segment a-b at the y-coordinate of vertex v
        AtLevel(a, b, v) ==
            <<a[1] + ((v[2] - a[2]) * (b[1] - a[1])) \div (b[2] - a[2]), v[2]>>
        Between(a, b, v) ==
            /\ b[2] # a[2]
            /\ \/ a[2] < v[2] /\ v[2] < b[2]
               \/ b[2] < v[2] /\ v[2] < a[2]
        \* the direction of the segment from s to e
        Dir(s, e) == <<e[1] - s[1], e[2] - s[2]>>
        Probes(a, b) ==
            \A v \in Vertices(mp) :
                Between(a, b, v) =>
                    /\ pointInAnyPoly(AtLevel(a, b, v), Dir(b, a))
                    /\ pointInAnyPoly(AtLevel(a, b, v), Zero)
                    /\ pointInAnyPoly(AtLevel(a, b, v), Dir(a, b))
    IN  IF Len(mp) = 0 \/ Len(ls) < 2 THEN FALSE
        ELSE /\ \A i \in 1..Len(ls) : pointInAnyPoly(ls[i], Zero)
             /\ \A i \in 1..(Len(ls) - 1) :
                    /\ \A k \in 1..(numSamples - 1) :
                           pointInAnyPoly(Sample(ls[i], ls[i + 1], k), Zero)
                    /\ Probes(ls[i], ls[i + 1])
             /\ \/ \E i \in 1..Len(ls) : \E j \in 1..Len(mp) :
                       pointInPolygonInterior(ls[i], mp[j])
                \/ \E i \in 1..(Len(ls) - 1) : \E j \in 1..Len(mp) :
                       pointInPolygonInterior(Mid(ls[i], ls[i + 1]), mp[j])

lineStringWithinBound(ls, b) ==
    /\ \A i \in 1..Len(ls) : boundContainsPoint(b, ls[i])
    /\ \/ \E i \in 1..Len(ls) : boundContainsPointInterior(b, ls[i])
       \/ \E i \in 1..(Len(ls) - 1) :
              boundContainsPointInterior(b, Mid(ls[i], ls[i + 1]))

RECURSIVE withinLineString(_, _)
withinLineString(ls, b) ==
    IF Len(ls) < 2 THEN FALSE
    ELSE CASE b.t \in {"Point", "MultiPoint"} -> FALSE
           [] b.t = "LineString" -> lineStringWithinLineString(ls, b.v)
           [] b.t = "MultiLineString" -> lineStringWithinMultiLineString(ls, b.v)
           [] b.t = "Ring" -> lineStringWithinRing(ls, b.v)
           [] b.t = "Polygon" -> lineStringWithinPolygon(ls, b.v)
           [] b.t = "MultiPolygon" ->
                 \/ \E j \in 1..Len(b.v) : lineStringWithinPolygon(ls, b.v[j])
                 \/ lineStringWithinMultiPolygon(ls, b.v)
           [] b.t = "Collection" ->
                 \E j \in 1..Len(b.v) : withinLineString(ls, b.v[j])
           [] b.t = "Bound" -> lineStringWithinBound(ls, b.v)

\* Some edge of r1 and some edge of r2 cross or overlap in their interiors
edgesIntersectInterior(r1, r2) ==
    \E i \in 1..(Len(r1) - 1) : \E j \in 1..(Len(r2) - 1) :
        segmentsIntersectInterior(r1[i], r1[i + 1], r2[j], r2[j + 1])

ringWithinRing(r1, r2) ==
    /\ \A i \in 1..Len(r1) : InRingClosure(r1[i], r2)
    /\ ~edgesIntersectInterior(r1, r2)
    /\ \/ \E i \in 1..Len(r1) : pointInRingInterior(r1[i], r2)
       \/ pointInRingInterior(ringCentroid(r1), r2)

ringWithinPolygon(r, poly) ==
    IF Len(poly) = 0 THEN FALSE
    ELSE /\ \A i \in 1..Len(r) : InPolygonClosure(r[i], poly)
         /\ \A k \in 1..Len(poly) : ~edgesIntersectInterior(r, poly[k])
         /\ pointInPolygonInterior(ringCentroid(r), poly)

ringWithinBound(r, b) ==
    /\ \A i \in 1..Len(r) : boundContainsPoint(b, r[i])
    /\ boundContainsPointInterior(b, ringCentroid(r))

RECURSIVE withinRing(_, _)
withinRing(r, b) ==
    IF Len(r) < 4 THEN FALSE
    ELSE CASE b.t \in {"Point", "MultiPoint", "LineString", "MultiLineString"} ->
                 FALSE
           [] b.t = "Ring" -> ringWithinRing(r, b.v)
           [] b.t = "Polygon" -> ringWithinPolygon(r, b.v)
           [] b.t = "MultiPolygon" ->
                 \E j \in 1..Len(b.v) : ringWithinPolygon(r, b.v[j])
           [] b.t = "Collection" -> \E j \in 1..Len(b.v) : withinRing(r, b.v[j])
           [] b.t = "Bound" -> ringWithinBound(r, b.v)

polygonsTopologicallyEqual(poly1, poly2) ==
    IF Len(poly1) = 0 \/ Len(poly2) = 0 THEN FALSE
    ELSE /\ \A i \in 1..Len(poly1[1]) : pointOnRingBoundary(poly1[1][i], poly2[1])
         /\ \A i \in 1..Len(poly2[1]) : pointOnRingBoundary(poly2[1][i], poly1[1])
         /\ Len(poly1) = Len(poly2)

polygonWithinPolygon(poly1, poly2) ==
    LET ext == poly1[1]
        Inside(p, hole) == RingContains(hole, p) /\ ~pointOnRingBoundary(p, hole)
        HoleHit(hole) ==
            \/ Inside(ringCentroid(ext), hole)
            \/ \E i \in 1..Len(ext) : Inside(ext[i], hole)
            \/ \E i \in 1..(Len(ext) - 1) : Inside(Mid(ext[i], ext[i + 1]), hole)
            \/ ringsIntersect(ext, hole) /\ RingContains(ext, ringCentroid(hole))
    IN  IF Len(poly1) = 0 \/ Len(poly2) = 0 THEN FALSE
        ELSE IF polygonsTopologicallyEqual(poly1, poly2) THEN TRUE
        ELSE /\ \A i \in 1..Len(ext) : InPolygonClosure(ext[i], poly2)
             /\ \A k \in 2..Len(poly2) : ~HoleHit(poly2[k])
             /\ \A i \in 1..Len(poly1) : \A k \in 1..Len(poly2) :
                    ~edgesIntersectInterior(poly1[i], poly2[k])
             /\ \/ pointInPolygonInterior(ringCentroid(ext), poly2)
                \/ \E i \in 1..Len(ext) : pointInPolygonInterior(ext[i], poly2)
                \/ \E i \in 1..(Len(ext) - 1) :
                       pointInPolygonInterior(Mid(ext[i], ext[i + 1]), poly2)

polygonWithinBound(poly, b) ==
    IF Len(poly) = 0 THEN FALSE
    ELSE /\ \A k \in 1..Len(poly) : \A i \in 1..Len(poly[k]) :
                boundContainsPoint(b, poly[k][i])
         /\ boundContainsPointInterior(b, ringCentroid(poly[1]))

RECURSIVE withinPolygon(_, _)
withinPolygon(poly, b) ==
    IF Len(poly) = 0 \/ Len(poly[1]) < 4 THEN FALSE
    ELSE CASE b.t \in {"Point", "MultiPoint", "LineString", "MultiLineString"} ->
                 FALSE
           [] b.t = "Ring" -> ringWithinRing(poly[1], b.v)
           [] b.t = "Polygon" -> polygonWithinPolygon(poly, b.v)
           [] b.t = "MultiPolygon" ->
                 \E j \in 1..Len(b.v) : polygonWithinPolygon(poly, b.v[j])
           [] b.t = "Collection" ->
                 \E j \in 1..Len(b.v) : withinPolygon(poly, b.v[j])
           [] b.t = "Bound" -> polygonWithinBound(poly, b.v)

RECURSIVE Within(_, _)
Within(a, b) ==
    LET ba == GeomBound(a)
        bb == GeomBound(b)
    IN  IF isEmpty(a) \/ isEmpty(b) THEN FALSE
        ELSE IF \/ ba.Min[1] < bb.Min[1] \/ ba.Max[1] > bb.Max[1]
                \/ ba.Min[2] < bb.Min[2] \/ ba.Max[2] > bb.Max[2]
        THEN FALSE
        ELSE CASE a.t = "Point" -> withinPoint(a.v, b)
               [] a.t = "MultiPoint" -> withinMultiPoint(a.v, b)
               [] a.t = "LineString" -> withinLineString(a.v, b)
               [] a.t = "MultiLineString" ->
                     /\ Len(a.v) # 0
                     /\ \A i \in 1..Len(a.v) : withinLineString(a.v[i], b)
               [] a.t = "Ring" -> withinRing(a.v, b)
               [] a.t = "Polygon" -> withinPolygon(a.v, b)
               [] a.t = "MultiPolygon" ->
                     /\ Len(a.v) # 0
                     /\ \A i \in 1..Len(a.v) : withinPolygon(a.v[i], b)
               [] a.t = "Collection" ->
                     /\ Len(a.v) # 0
                     /\ \A i \in 1..Len(a.v) : Within(a.v[i], b)
               [] a.t = "Bound" -> withinPolygon(boundToPolygon(a.v), b)

\* A Contains that forgets to swap its arguments.
ContainsUnswapped(a, b) == Within(a, b)

Contains(a, b) == Within(b, a)

---------------------------------------------------------------------------
(* covers.go                                                               *)

\* The vertices of a point sequence and the midpoints of its segments
VerticesAndMidpoints(pts) ==
    {pts[i] : i \in 1..Len(pts)} \cup
    {Mid(pts[i], pts[i + 1]) : i \in 1..(Len(pts) - 1)}

Corners(b) ==
    {<<b.Min[1], b.Min[2]>>, <<b.Max[1], b.Min[2]>>,
     <<b.Max[1], b.Max[2]>>, <<b.Min[1], b.Max[2]>>}

coversPoint(p, b) ==
    CASE b.t = "Point" -> pointsEqual(p, b.v)
      [] b.t = "MultiPoint" -> \A i \in 1..Len(b.v) : pointsEqual(p, b.v[i])
      [] OTHER -> FALSE

coversMultiPoint(mp, b) ==
    CASE b.t = "Point" -> \E i \in 1..Len(mp) : pointsEqual(mp[i], b.v)
      [] b.t = "MultiPoint" ->
            \A j \in 1..Len(b.v) : \E i \in 1..Len(mp) : pointsEqual(b.v[j], mp[i])
      [] OTHER -> FALSE

lineStringCoversLineString(ls1, ls2) ==
    \A p \in VerticesAndMidpoints(ls2) : pointIntersectsLineString(p, ls1)

coversLineString(ls, b) ==
    CASE b.t = "Point" -> pointIntersectsLineString(b.v, ls)
      [] b.t = "MultiPoint" ->
            \A i \in 1..Len(b.v) : pointIntersectsLineString(b.v[i], ls)
      [] b.t = "LineString" -> lineStringCoversLineString(ls, b.v)
      [] b.t = "MultiLineString" ->
            \A i \in 1..Len(b.v) : lineStringCoversLineString(ls, b.v[i])
      [] OTHER -> FALSE

multiLineStringCoversLineString(mls, ls) ==
    \A p \in VerticesAndMidpoints(ls) :
        \E j \in 1..Len(mls) : pointIntersectsLineString(p, mls[j])

coversMultiLineString(mls, b) ==
    CASE b.t = "Point" ->
            \E j \in 1..Len(mls) : pointIntersectsLineString(b.v, mls[j])
      [] b.t = "MultiPoint" ->
            \A i \in 1..Len(b.v) :
                \E j \in 1..Len(mls) : pointIntersectsLineString(b.v[i], mls[j])
      [] b.t = "LineString" -> multiLineStringCoversLineString(mls, b.v)
      [] b.t = "MultiLineString" ->
            \A i \in 1..Len(b.v) : multiLineStringCoversLineString(mls, b.v[i])
      [] OTHER -> FALSE

ringCoversLineString(r, ls) ==
    \A p \in VerticesAndMidpoints(ls) : InRingClosure(p, r)

ringCoversRing(r1, r2) ==
    \A p \in VerticesAndMidpoints(r2) : InRingClosure(p, r1)

ringCoversPolygon(r, poly) ==
    IF Len(poly) = 0 THEN TRUE
    ELSE \A i \in 1..Len(poly[1]) : InRingClosure(poly[1][i], r)

ringCoversBound(r, b) == \A c \in Corners(b) : InRingClosure(c, r)

RECURSIVE coversRing(_, _)
coversRing(r, b) ==
    CASE b.t = "Point" -> InRingClosure(b.v, r)
      [] b.t = "MultiPoint" -> \A i \in 1..Len(b.v) : InRingClosure(b.v[i], r)
      [] b.t = "LineString" -> ringCoversLineString(r, b.v)
      [] b.t = "MultiLineString" ->
            \A i \in 1..Len(b.v) : ringCoversLineString(r, b.v[i])
      [] b.t = "Ring" -> ringCoversRing(r, b.v)
      [] b.t = "Polygon" -> ringCoversPolygon(r, b.v)
      [] b.t = "MultiPolygon" ->
            \A i \in 1..Len(b.v) : ringCoversPolygon(r, b.v[i])
      [] b.t = "Collection" -> \A i \in 1..Len(b.v) : coversRing(r, b.v[i])
      [] b.t = "Bound" -> ringCoversBound(r, b.v)

polygonCoversLineString(poly, ls) ==
    \A p \in VerticesAndMidpoints(ls) : InPolygonClosure(p, poly)

polygonCoversRing(poly, r) ==
    \A p \in VerticesAndMidpoints(r) : InPolygonClosure(p, poly)

polygonCoversPolygon(poly1, poly2) ==
    IF Len(poly2) = 0 THEN TRUE
    ELSE \A p \in VerticesAndMidpoints(poly2[1]) : InPolygonClosure(p, poly1)

polygonCoversBound(poly, b) ==
    /\ \A c \in Corners(b) : InPolygonClosure(c, poly)
    /\ \A e \in {<<(b.Min[1] + b.Max[1]) \div 2, b.Min[2]>>,
                 <<b.Max[1], (b.Min[2] + b.Max[2]) \div 2>>,
                 <<(b.Min[1] + b.Max[1]) \div 2, b.Max[2]>>,
                 <<b.Min[1], (b.Min[2] + b.Max[2]) \div 2>>} :
           InPolygonClosure(e, poly)

RECURSIVE coversPolygon(_, _)
coversPolygon(poly, b) ==
    CASE b.t = "Point" -> InPolygonClosure(b.v, poly)
      [] b.t = "MultiPoint" ->
            \A i \in 1..Len(b.v) : InPolygonClosure(b.v[i], poly)
      [] b.t = "LineString" -> polygonCoversLineString(poly, b.v)
      [] b.t = "MultiLineString" ->
            \A i \in 1..Len(b.v) : polygonCoversLineString(poly, b.v[i])
      [] b.t = "Ring" -> polygonCoversRing(poly, b.v)
      [] b.t = "Polygon" -> polygonCoversPolygon(poly, b.v)
      [] b.t = "MultiPolygon" ->
            \A i \in 1..Len(b.v) : polygonCoversPolygon(poly, b.v[i])
      [] b.t = "Collection" -> \A i \in 1..Len(b.v) : coversPolygon(poly, b.v[i])
      [] b.t = "Bound" -> polygonCoversBound(poly, b.v)

\* Some polygon of mp has p in its closure
coveredByAny(p, mp) == \E j \in 1..Len(mp) : InPolygonClosure(p, mp[j])

multiPolygonCoversLineString(mp, ls) ==
    \A p \in VerticesAndMidpoints(ls) : coveredByAny(p, mp)

multiPolygonCoversRing(mp, r) ==
    \A p \in VerticesAndMidpoints(r) : coveredByAny(p, mp)

multiPolygonCoversPolygon(mp, poly) ==
    IF Len(poly) = 0 THEN TRUE
    ELSE \/ \E j \in 1..Len(mp) : polygonCoversPolygon(mp[j], poly)
         \/ \A p \in VerticesAndMidpoints(poly[1]) : coveredByAny(p, mp)

RECURSIVE coversMultiPolygon(_, _)
coversMultiPolygon(mp, b) ==
    CASE b.t = "Point" -> coveredByAny(b.v, mp)
      [] b.t = "MultiPoint" -> \A i \in 1..Len(b.v) : coveredByAny(b.v[i], mp)
      [] b.t = "LineString" -> multiPolygonCoversLineString(mp, b.v)
      [] b.t = "MultiLineString" ->
            \A i \in 1..Len(b.v) : multiPolygonCoversLineString(mp, b.v[i])
      [] b.t = "Ring" -> multiPolygonCoversRing(mp, b.v)
      [] b.t = "Polygon" -> multiPolygonCoversPolygon(mp, b.v)
      [] b.t = "MultiPolygon" ->
            \A i \in 1..Len(b.v) : multiPolygonCoversPolygon(mp, b.v[i])
      [] b.t = "Collection" ->
            \A i \in 1..Len(b.v) : coversMultiPolygon(mp, b.v[i])
      [] b.t = "Bound" -> multiPolygonCoversPolygon(mp, boundToPolygon(b.v))

RECURSIVE coversBound(_, _)
coversBound(bound, b) ==
    CASE b.t = "Point" -> boundContainsPoint(bound, b.v)
      [] b.t \in {"MultiPoint", "LineString", "Ring"} ->
            \A i \in 1..Len(b.v) : boundContainsPoint(bound, b.v[i])
      [] b.t \in {"MultiLineString", "Polygon"} ->
            \A k \in 1..Len(b.v) : \A i \in 1..Len(b.v[k]) :
                boundContainsPoint(bound, b.v[k][i])
      [] b.t = "MultiPolygon" ->
            \A p \in Vertices(b.v) : boundContainsPoint(bound, p)
      [] b.t = "Collection" -> \A i \in 1..Len(b.v) : coversBound(bound, b.v[i])
      [] b.t = "Bound" ->
            /\ bound.Min[1] <= b.v.Min[1] /\ bound.Min[2] <= b.v.Min[2]
            /\ bound.Max[1] >= b.v.Max[1] /\ bound.Max[2] >= b.v.Max[2]

RECURSIVE Covers(_, _)
Covers(a, b) ==
    LET ba == GeomBound(a)
        bb == GeomBound(b)
    IN  IF isEmpty(a) \/ isEmpty(b) THEN FALSE
        ELSE IF \/ bb.Min[1] < ba.Min[1] \/ bb.Max[1] > ba.Max[1]
                \/ bb.Min[2] < ba.Min[2] \/ bb.Max[2] > ba.Max[2]
        THEN FALSE
        ELSE CASE a.t = "Point" -> coversPoint(a.v, b)
               [] a.t = "MultiPoint" -> coversMultiPoint(a.v, b)
               [] a.t = "LineString" -> coversLineString(a.v, b)
               [] a.t = "MultiLineString" -> coversMultiLineString(a.v, b)
               [] a.t = "Ring" -> coversRing(a.v, b)
               [] a.t = "Polygon" -> coversPolygon(a.v, b)
               [] a.t = "MultiPolygon" -> coversMultiPolygon(a.v, b)
               [] a.t = "Collection" ->
                     IF b.t = "MultiPoint"
                     THEN \A i \in 1..Len(b.v) : \E j \in 1..Len(a.v) :
                              Covers(a.v[j], Geom("Point", b.v[i]))
                     ELSE \E j \in 1..Len(a.v) : Covers(a.v[j], b)
               [] a.t = "Bound" -> coversBound(a.v, b)

CoveredBy(a, b) == Covers(b, a)

---------------------------------------------------------------------------
(* touches.go                                                              *)

RECURSIVE pointInteriorIntersects(_, _)
pointInteriorIntersects(p, b) ==
    CASE b.t = "Point" -> pointsEqual(p, b.v)
      [] b.t = "MultiPoint" -> \E i \in 1..Len(b.v) : pointsEqual(p, b.v[i])
      [] b.t = "LineString" -> pointInLineStringInterior(p, b.v)
      [] b.t = "MultiLineString" ->
            \E i \in 1..Len(b.v) : pointInLineStringInterior(p, b.v[i])
      [] b.t = "Ring" -> pointInRingInterior(p, b.v)
      [] b.t = "Polygon" -> pointInPolygonInterior(p, b.v)
      [] b.t = "MultiPolygon" ->
            \E i \in 1..Len(b.v) : pointInPolygonInterior(p, b.v[i])
      [] b.t = "Collection" ->
            \E i \in 1..Len(b.v) : pointInteriorIntersects(p, b.v[i])
      [] b.t = "Bound" -> boundContainsPointInterior(b.v, p)

lineStringInteriorsIntersect(ls1, ls2) ==
    \/ edgesIntersectInterior(ls1, ls2)
    \/ \E i \in 2..(Len(ls1) - 1) : pointInLineStringInterior(ls1[i], ls2)
    \/ \E i \in 2..(Len(ls2) - 1) : pointInLineStringInterior(ls2[i], ls1)
    \/ \E i \in 1..(Len(ls1) - 1) :
           pointInLineStringInterior(Mid(ls1[i], ls1[i + 1]), ls2)

lineStringInteriorIntersectsRingInterior(ls, r) ==
    \/ \E i \in 2..(Len(ls) - 1) : pointInRingInterior(ls[i], r)
    \/ \E i \in 1..(Len(ls) - 1) : pointInRingInterior(Mid(ls[i], ls[i + 1]), r)

lineStringInteriorIntersectsPolygonInterior(ls, poly) ==
    IF Len(ls) < 2 THEN FALSE
    ELSE \/ pointInPolygonInterior(ls[1], poly)
         \/ pointInPolygonInterior(ls[Len(ls)], poly)
         \/ \E i \in 2..(Len(ls) - 1) : pointInPolygonInterior(ls[i], poly)
         \/ \E i \in 1..(Len(ls) - 1) :
                pointInPolygonInterior(Mid(ls[i], ls[i + 1]), poly)

lineStringInteriorIntersectsBoundInterior(ls, b) ==
    IF Len(ls) < 2 THEN FALSE
    ELSE \E p \in VerticesAndMidpoints(ls) : boundContainsPointInterior(b, p)

RECURSIVE lineStringInteriorIntersects(_, _)
lineStringInteriorIntersects(ls, b) ==
    IF Len(ls) < 2 THEN FALSE
    ELSE CASE b.t = "Point" -> pointInLineStringInterior(b.v, ls)
           [] b.t = "MultiPoint" ->
                 \E i \in 1..Len(b.v) : pointInLineStringInterior(b.v[i], ls)
           [] b.t = "LineString" -> lineStringInteriorsIntersect(ls, b.v)
           [] b.t = "MultiLineString" ->
                 \E i \in 1..Len(b.v) : lineStringInteriorsIntersect(ls, b.v[i])
           [] b.t = "Ring" -> lineStringInteriorIntersectsRingInterior(ls, b.v)
           [] b.t = "Polygon" ->
                 lineStringInteriorIntersectsPolygonInterior(ls, b.v)
           [] b.t = "MultiPolygon" ->
                 \E i \in 1..Len(b.v) :
                     lineStringInteriorIntersectsPolygonInterior(ls, b.v[i])
           [] b.t = "Collection" ->
                 \E i \in 1..Len(b.v) : lineStringInteriorIntersects(ls, b.v[i])
           [] b.t = "Bound" -> lineStringInteriorIntersectsBoundInterior(ls, b.v)

getOverlapMidpoint(p1, p2, p3, p4) ==
    LET horizontal == Abs(p2[1] - p1[1]) > Abs(p2[2] - p1[2])
        k == IF horizontal THEN 1 ELSE 2
        start == max(min(p1[k], p2[k]), min(p3[k], p4[k]))
        end == min(max(p1[k], p2[k]), max(p3[k], p4[k]))
        midVal == (start + end) \div 2
        dx == p2[1] - p1[1]
        dy == p2[2] - p1[2]
    IN  IF horizontal
        THEN IF dx = 0 THEN p1
             ELSE <<midVal, p1[2] + ((midVal - p1[1]) * dy) \div dx>>
        ELSE IF dy = 0 THEN p1
             ELSE <<p1[1] + ((midVal - p1[2]) * dx) \div dy, midVal>>

\* The two polygons share a point, of the interior or of the boundary.
polygonClosuresIntersect(p1, p2) == polygonsIntersect(p1, p2)

polygonInteriorsIntersect(p1, p2) ==
    LET EdgePairs(Q(_, _, _, _)) ==
            \E k1 \in 1..Len(p1) : \E k2 \in 1..Len(p2) :
                \E i \in 1..(Len(p1[k1]) - 1) : \E j \in 1..(Len(p2[k2]) - 1) :
                    Q(p1[k1][i], p1[k1][i + 1], p2[k2][j], p2[k2][j + 1])
        \* both probes, 1e-5 to either side of the overlap's midpoint
        Probe(a, b, c, d) ==
            LET mid == getOverlapMidpoint(a, b, c, d)
                n == <<a[2] - b[2], b[1] - a[1]>>
                m == <<0 - n[1], 0 - n[2]>>
            IN  /\ segmentsAreCollinear(a, b, c, d)
                /\ segmentsOverlapInterior(a, b, c, d)
                /\ n # Zero
                /\ \/ /\ pointInPolygonInteriorD(mid, n, p1)
                      /\ pointInPolygonInteriorD(mid, n, p2)
                   \/ /\ pointInPolygonInteriorD(mid, m, p1)
                      /\ pointInPolygonInteriorD(mid, m, p2)
    IN  IF Len(p1) = 0 \/ Len(p2) = 0 THEN FALSE
        ELSE \/ EdgePairs(segmentsCrossProper)
             \/ \E p \in Vertices(<<p1>>) : pointInPolygonInterior(p, p2)
             \/ \E p \in Vertices(<<p2>>) : pointInPolygonInterior(p, p1)
             \/ EdgePairs(Probe)

ringInteriorIntersectsPolygonInterior(r, poly) ==
    IF Len(poly) = 0 THEN FALSE
    ELSE \/ /\ pointInRingInterior(ringCentroid(r), r)
            /\ pointInPolygonInterior(ringCentroid(r), poly)
         \/ /\ pointInPolygonInterior(ringCentroid(poly[1]), poly)
            /\ pointInRingInterior(ringCentroid(poly[1]), r)

\* The source's center {(b.Min[0]+b.Max[0])/2, (b.Min[1]+b.Max[1])/2}
Center(b) == <<(b.Min[1] + b.Max[1]) \div 2, (b.Min[2] + b.Max[2]) \div 2>>

ringInteriorIntersectsBoundInterior(r, b) ==
    \/ /\ pointInRingInterior(ringCentroid(r), r)
       /\ boundContainsPointInterior(b, ringCentroid(r))
    \/ pointInRingInterior(Center(b), r)

RECURSIVE ringInteriorIntersects(_, _)
ringInteriorIntersects(r, b) ==
    CASE b.t = "Point" -> pointInRingInterior(b.v, r)
      [] b.t = "MultiPoint" -> \E i \in 1..Len(b.v) : pointInRingInterior(b.v[i], r)
      [] b.t = "LineString" -> lineStringInteriorIntersectsRingInterior(b.v, r)
      [] b.t = "MultiLineString" ->
            \E i \in 1..Len(b.v) :
                lineStringInteriorIntersectsRingInterior(b.v[i], r)
      [] b.t = "Ring" -> polygonInteriorsIntersect(<<r>>, <<b.v>>)
      [] b.t = "Polygon" -> ringInteriorIntersectsPolygonInterior(r, b.v)
      [] b.t = "MultiPolygon" ->
            \E i \in 1..Len(b.v) : ringInteriorIntersectsPolygonInterior(r, b.v[i])
      [] b.t = "Collection" ->
            \E i \in 1..Len(b.v) : ringInteriorIntersects(r, b.v[i])
      [] b.t = "Bound" -> ringInteriorIntersectsBoundInterior(r, b.v)

polygonInteriorIntersectsBoundInterior(poly, b) ==
    IF Len(poly) = 0 THEN FALSE
    ELSE \/ /\ pointInPolygonInterior(ringCentroid(poly[1]), poly)
            /\ boundContainsPointInterior(b, ringCentroid(poly[1]))
         \/ pointInPolygonInterior(Center(b), poly)

RECURSIVE polygonInteriorIntersects(_, _)
polygonInteriorIntersects(poly, b) ==
    IF Len(poly) = 0 THEN FALSE
    ELSE CASE b.t = "Point" -> pointInPolygonInterior(b.v, poly)
           [] b.t = "MultiPoint" ->
                 \E i \in 1..Len(b.v) : pointInPolygonInterior(b.v[i], poly)
           [] b.t = "LineString" ->
                 lineStringInteriorIntersectsPolygonInterior(b.v, poly)
           [] b.t = "MultiLineString" ->
                 \E i \in 1..Len(b.v) :
                     lineStringInteriorIntersectsPolygonInterior(b.v[i], poly)
           [] b.t = "Ring" -> ringInteriorIntersectsPolygonInterior(b.v, poly)
           [] b.t = "Polygon" -> polygonInteriorsIntersect(poly, b.v)
           [] b.t = "MultiPolygon" ->
                 \E i \in 1..Len(b.v) : polygonInteriorsIntersect(poly, b.v[i])
           [] b.t = "Collection" ->
                 \E i \in 1..Len(b.v) : polygonInteriorIntersects(poly, b.v[i])
           [] b.t = "Bound" -> polygonInteriorIntersectsBoundInterior(poly, b.v)

boundsInteriorsIntersect(b1, b2) ==
    /\ min(b1.Max[1], b2.Max[1]) - max(b1.Min[1], b2.Min[1]) > 0
    /\ min(b1.Max[2], b2.Max[2]) - max(b1.Min[2], b2.Min[2]) > 0

RECURSIVE boundInteriorIntersects(_, _)
boundInteriorIntersects(bound, b) ==
    CASE b.t = "Point" -> boundContainsPointInterior(bound, b.v)
      [] b.t = "MultiPoint" ->
            \E i \in 1..Len(b.v) : boundContainsPointInterior(bound, b.v[i])
      [] b.t = "LineString" -> lineStringInteriorIntersectsBoundInterior(b.v, bound)
      [] b.t = "MultiLineString" ->
            \E i \in 1..Len(b.v) :
                lineStringInteriorIntersectsBoundInterior(b.v[i], bound)
      [] b.t = "Ring" -> ringInteriorIntersectsBoundInterior(b.v, bound)
      [] b.t = "Polygon" -> polygonInteriorIntersectsBoundInterior(b.v, bound)
      [] b.t = "MultiPolygon" ->
            \E i \in 1..Len(b.v) :
                polygonInteriorIntersectsBoundInterior(b.v[i], bound)
      [] b.t = "Collection" ->
            \E i \in 1..Len(b.v) : boundInteriorIntersects(bound, b.v[i])
      [] b.t = "Bound" -> boundsInteriorsIntersect(bound, b.v)

RECURSIVE interiorsIntersect(_, _)
interiorsIntersect(a, b) ==
    CASE a.t = "Point" -> pointInteriorIntersects(a.v, b)
      [] a.t = "MultiPoint" ->
            \E i \in 1..Len(a.v) : pointInteriorIntersects(a.v[i], b)
      [] a.t = "LineString" -> lineStringInteriorIntersects(a.v, b)
      [] a.t = "MultiLineString" ->
            \E i \in 1..Len(a.v) : lineStringInteriorIntersects(a.v[i], b)
      [] a.t = "Ring" -> ringInteriorIntersects(a.v, b)
      [] a.t = "Polygon" -> polygonInteriorIntersects(a.v, b)
      [] a.t = "MultiPolygon" ->
            \E i \in 1..Len(a.v) : polygonInteriorIntersects(a.v[i], b)
      [] a.t = "Collection" -> \E i \in 1..Len(a.v) : interiorsIntersect(a.v[i], b)
      [] a.t = "Bound" -> boundInteriorIntersects(a.v, b)

Touches(a, b) ==
    IF isEmpty(a) \/ isEmpty(b) THEN FALSE
    ELSE IF ~boundingBoxOverlap(a, b) THEN FALSE
    ELSE IF ~Intersects(a, b) THEN FALSE
    ELSE ~interiorsIntersect(a, b)

---------------------------------------------------------------------------
(* overlaps.go                                                             *)

multiPointsOverlap(mp1, mp2) ==
    LET In(p, mp) == \E j \in 1..Len(mp) : pointsEqual(p, mp[j])
    IN  /\ \E i \in 1..Len(mp1) : In(mp1[i], mp2)
        /\ \E i \in 1..Len(mp1) : ~In(mp1[i], mp2)
        /\ \E j \in 1..Len(mp2) : ~In(mp2[j], mp1)

segmentsShareLine(p1, p2, p3, p4) ==
    IF sign(cross2D(p1, p2, p3)) # 0 \/ sign(cross2D(p1, p2, p4)) # 0 THEN FALSE
    ELSE segmentsOverlapInterior(p1, p2, p3, p4)

lineStringsOverlap(ls1, ls2) ==
    IF Len(ls1) < 2 \/ Len(ls2) < 2 THEN FALSE
    ELSE /\ \E i \in 1..(Len(ls1) - 1) : \E j \in 1..(Len(ls2) - 1) :
                segmentsShareLine(ls1[i], ls1[i + 1], ls2[j], ls2[j + 1])
         /\ ~(lineStringCoversLineString(ls1, ls2) \/
              lineStringCoversLineString(ls2, ls1))

lineStringOverlapsMultiLineString(ls, mls) ==
    /\ \E j \in 1..Len(mls) : lineStringsOverlap(ls, mls[j])
    /\ ~multiLineStringCoversLineString(mls, ls)
    /\ ~(\A j \in 1..Len(mls) : lineStringCoversLineString(ls, mls[j]))

overlapsLineString(ls, b) ==
    CASE b.t = "LineString" -> lineStringsOverlap(ls, b.v)
      [] b.t = "MultiLineString" -> lineStringOverlapsMultiLineString(ls, b.v)
      [] OTHER -> FALSE

multiLineStringsOverlap(mls1, mls2) ==
    /\ \E i \in 1..Len(mls1) : \E j \in 1..Len(mls2) :
           lineStringsOverlap(mls1[i], mls2[j])
    /\ ~(\A i \in 1..Len(mls1) : multiLineStringCoversLineString(mls2, mls1[i]))
    /\ ~(\A j \in 1..Len(mls2) : multiLineStringCoversLineString(mls1, mls2[j]))

overlapsMultiLineString(mls, b) ==
    CASE b.t = "LineString" -> lineStringOverlapsMultiLineString(b.v, mls)
      [] b.t = "MultiLineString" -> multiLineStringsOverlap(mls, b.v)
      [] OTHER -> FALSE

ringsOverlap(r1, r2) ==
    /\ ringsIntersect(r1, r2)
    /\ \/ pointInRingInterior(ringCentroid(r1), r2)
       \/ \E i \in 1..Len(r1) : pointInRingInterior(r1[i], r2)
    /\ \/ pointInRingInterior(ringCentroid(r2), r1)
       \/ \E i \in 1..Len(r2) : pointInRingInterior(r2[i], r1)
    /\ ~(ringCoversRing(r1, r2) \/ ringCoversRing(r2, r1))

ringOverlapsPolygon(r, poly) ==
    IF Len(poly) = 0 THEN FALSE
    ELSE /\ ringIntersectsPolygon(r, poly)
         /\ \/ pointInPolygonInterior(ringCentroid(r), poly)
            \/ \E i \in 1..Len(r) : pointInPolygonInterior(r[i], poly)
         /\ \/ pointInRingInterior(ringCentroid(poly[1]), r)
            \/ \E i \in 1..Len(poly[1]) : pointInRingInterior(poly[1][i], r)
         /\ ~(ringCoversRing(r, poly[1]) \/ polygonCoversRing(poly, r))

overlapsRing(r, b) ==
    CASE b.t = "Ring" -> ringsOverlap(r, b.v)
      [] b.t = "Polygon" -> ringOverlapsPolygon(r, b.v)
      [] b.t = "MultiPolygon" ->
            \E j \in 1..Len(b.v) : ringOverlapsPolygon(r, b.v[j])
      [] b.t = "Bound" -> ringOverlapsPolygon(r, boundToPolygon(b.v))
      [] OTHER -> FALSE

polygonsOverlap(p1, p2) ==
    IF Len(p1) = 0 \/ Len(p2) = 0 THEN FALSE
    ELSE /\ polygonsIntersect(p1, p2)
         /\ \/ pointInPolygonInterior(ringCentroid(p1[1]), p2)
            \/ \E i \in 1..Len(p1[1]) : pointInPolygonInterior(p1[1][i], p2)
         /\ \/ pointInPolygonInterior(ringCentroid(p2[1]), p1)
            \/ \E i \in 1..Len(p2[1]) : pointInPolygonInterior(p2[1][i], p1)
         /\ ~(polygonCoversPolygon(p1, p2) \/ polygonCoversPolygon(p2, p1))

polygonOverlapsMultiPolygon(poly, mp) ==
    \E j \in 1..Len(mp) : polygonsOverlap(poly, mp[j])

overlapsPolygon(poly, b) ==
    CASE b.t = "Ring" -> ringOverlapsPolygon(b.v, poly)
      [] b.t = "Polygon" -> polygonsOverlap(poly, b.v)
      [] b.t = "MultiPolygon" -> polygonOverlapsMultiPolygon(poly, b.v)
      [] b.t = "Bound" -> polygonsOverlap(poly, boundToPolygon(b.v))
      [] OTHER -> FALSE

overlapsMultiPolygon(mp, b) ==
    CASE b.t = "Ring" -> \E j \in 1..Len(mp) : ringOverlapsPolygon(b.v, mp[j])
      [] b.t = "Polygon" -> polygonOverlapsMultiPolygon(b.v, mp)
      [] b.t = "MultiPolygon" ->
            \E i \in 1..Len(mp) : \E j \in 1..Len(b.v) :
                polygonsOverlap(mp[i], b.v[j])
      [] b.t = "Bound" -> polygonOverlapsMultiPolygon(boundToPolygon(b.v), mp)
      [] OTHER -> FALSE

RECURSIVE Overlaps(_, _)
Overlaps(a, b) ==
    IF isEmpty(a) \/ isEmpty(b) THEN FALSE
    ELSE IF ~boundingBoxOverlap(a, b) THEN FALSE
    ELSE IF getGeometryDimension(a) # getGeometryDimension(b) THEN FALSE
    ELSE CASE a.t = "Point" -> FALSE
           [] a.t = "MultiPoint" ->
                 IF b.t = "MultiPoint" THEN multiPointsOverlap(a.v, b.v) ELSE FALSE
           [] a.t = "LineString" -> overlapsLineString(a.v, b)
           [] a.t = "MultiLineString" -> overlapsMultiLineString(a.v, b)
           [] a.t = "Ring" -> overlapsRing(a.v, b)
           [] a.t = "Polygon" -> overlapsPolygon(a.v, b)
           [] a.t = "MultiPolygon" -> overlapsMultiPolygon(a.v, b)
           [] a.t = "Collection" -> \E i \in 1..Len(a.v) : Overlaps(a.v[i], b)
           [] a.t = "Bound" -> overlapsPolygon(boundToPolygon(a.v), b)

---------------------------------------------------------------------------
(* crosses.go                                                              *)

\* The loops that return once hasInside and hasOutside are both set
SomeInSomeOut(S, Inside(_)) == (\E p \in S : Inside(p)) /\ (\E p \in S : ~Inside(p))

Points(pts) == {pts[i] : i \in 1..Len(pts)}

\* crossesMultiPoint on a second operand that is not a Collection: every case
\* of its switch but the Collection's.
multiPointCrosses(mp, b) ==
    LET OnLine(p) == pointIntersectsLineString(p, b.v)
        InRing(p) == InRingClosure(p, b.v)
        InPolygon(p) == PolygonContains(b.v, p)
        InSomePolygon(p) == coveredByAny(p, b.v)
        InBound(p) == boundContainsPoint(b.v, p)
        OnSomeLine(p) ==
            \E j \in 1..Len(b.v) : pointIntersectsLineString(p, b.v[j])
    IN  IF Len(mp) < 2 THEN FALSE
        ELSE CASE b.t \in {"Point", "MultiPoint"} -> FALSE
               [] b.t = "LineString" -> SomeInSomeOut(Points(mp), OnLine)
               [] b.t = "MultiLineString" -> SomeInSomeOut(Points(mp), OnSomeLine)
               [] b.t = "Ring" -> SomeInSomeOut(Points(mp), InRing)
               [] b.t = "Polygon" ->
                     SomeInSomeOut({p \in Points(mp) :
                                       ~pointOnPolygonBoundary(p, b.v)}, InPolygon)
               [] b.t = "MultiPolygon" -> SomeInSomeOut(Points(mp), InSomePolygon)
               [] b.t = "Bound" -> SomeInSomeOut(Points(mp), InBound)

crossesMultiPoint(mp, b) ==
    LET InSomeMember(p) ==
            \E j \in 1..Len(b.v) : Intersects(Geom("Point", p), b.v[j])
    IN  IF b.t # "Collection" THEN multiPointCrosses(mp, b)
        ELSE IF Len(mp) < 2 THEN FALSE
        ELSE SomeInSomeOut(Points(mp), InSomeMember)

segmentsOverlap(p1, p2, p3, p4) ==
    IF ~segmentsAreCollinear(p1, p2, p3, p4) THEN FALSE
    ELSE segmentsOverlapInterior(p1, p2, p3, p4)

\* The two linestrings have a segment in common, end point for end point.
linesShareWholeSegment(ls1, ls2) ==
    \E i \in 1..(Len(ls1) - 1) : \E j \in 1..(Len(ls2) - 1) :
        {ls1[i], ls1[i + 1]} = {ls2[j], ls2[j + 1]}

linesHaveSegmentOverlap(ls1, ls2) ==
    \E i \in 1..(Len(ls1) - 1) : \E j \in 1..(Len(ls2) - 1) :
        segmentsOverlap(ls1[i], ls1[i + 1], ls2[j], ls2[j + 1])

lineStringCrossesLineString(ls1, ls2) ==
    IF linesHaveSegmentOverlap(ls1, ls2) THEN FALSE
    ELSE \E i \in 1..(Len(ls1) - 1) : \E j \in 1..(Len(ls2) - 1) :
             segmentsCrossProper(ls1[i], ls1[i + 1], ls2[j], ls2[j + 1])

lineStringCrossesRing(ls, r) ==
    LET In(p) == RingContains(r, p)
    IN  SomeInSomeOut({p \in VerticesAndMidpoints(ls) : ~pointOnRingBoundary(p, r)},
                      In)

lineStringCrossesPolygonArea(ls, poly) ==
    LET In(p) == PolygonContains(poly, p)
    IN  IF Len(poly) = 0 THEN FALSE
        ELSE SomeInSomeOut({p \in VerticesAndMidpoints(ls) :
                               ~pointOnPolygonBoundary(p, poly)}, In)

lineStringCrossesBound(ls, b) ==
    LET S == {p \in VerticesAndMidpoints(ls) : ~pointOnBoundBoundary(p, b)}
    IN  /\ \E p \in S : boundContainsPointInterior(b, p)
        /\ \E p \in S : ~boundContainsPointInterior(b, p) /\ ~boundContainsPoint(b, p)

RECURSIVE crossesLineString(_, _)
crossesLineString(ls, b) ==
    IF Len(ls) < 2 THEN FALSE
    ELSE CASE b.t = "Point" -> FALSE
           [] b.t = "MultiPoint" -> multiPointCrosses(b.v, Geom("LineString", ls))
           [] b.t = "LineString" -> lineStringCrossesLineString(ls, b.v)
           [] b.t = "MultiLineString" ->
                 /\ ~\E j \in 1..Len(b.v) : linesHaveSegmentOverlap(ls, b.v[j])
                 /\ \E j \in 1..Len(b.v) : lineStringCrossesLineString(ls, b.v[j])
           [] b.t = "Ring" -> lineStringCrossesRing(ls, b.v)
           [] b.t = "Polygon" -> lineStringCrossesPolygonArea(ls, b.v)
           [] b.t = "MultiPolygon" ->
                 \E j \in 1..Len(b.v) : lineStringCrossesPolygonArea(ls, b.v[j])
           [] b.t = "Collection" ->
                 \E j \in 1..Len(b.v) : crossesLineString(ls, b.v[j])
           [] b.t = "Bound" -> lineStringCrossesBound(ls, b.v)

RECURSIVE crossesMultiLineString(_, _)
crossesMultiLineString(mls, b) ==
    LET I == 1..Len(mls)
    IN  CASE b.t = "Point" -> FALSE
          [] b.t = "MultiPoint" ->
                multiPointCrosses(b.v, Geom("MultiLineString", mls))
          [] b.t = "LineString" ->
                /\ ~\E i \in I : linesHaveSegmentOverlap(mls[i], b.v)
                /\ \E i \in I : lineStringCrossesLineString(mls[i], b.v)
          [] b.t = "MultiLineString" ->
                /\ ~\E i \in I : \E j \in 1..Len(b.v) :
                       linesHaveSegmentOverlap(mls[i], b.v[j])
                /\ \E i \in I : \E j \in 1..Len(b.v) :
                       lineStringCrossesLineString(mls[i], b.v[j])
          [] b.t = "Ring" -> \E i \in I : lineStringCrossesRing(mls[i], b.v)
          [] b.t = "Polygon" ->
                \E i \in I : lineStringCrossesPolygonArea(mls[i], b.v)
          [] b.t = "MultiPolygon" ->
                \E i \in I : \E j \in 1..Len(b.v) :
                    lineStringCrossesPolygonArea(mls[i], b.v[j])
          [] b.t = "Collection" ->
                \E j \in 1..Len(b.v) : crossesMultiLineString(mls, b.v[j])
          [] b.t = "Bound" -> \E i \in I : lineStringCrossesBound(mls[i], b.v)

crossesRing(r, b) ==
    CASE b.t = "Point" -> FALSE
      [] b.t = "MultiPoint" -> multiPointCrosses(b.v, Geom("Ring", r))
      [] b.t = "LineString" -> lineStringCrossesRing(b.v, r)
      [] b.t = "MultiLineString" ->
            \E j \in 1..Len(b.v) : lineStringCrossesRing(b.v[j], r)
      [] OTHER -> FALSE

crossesPolygon(poly, b) ==
    CASE b.t = "Point" -> FALSE
      [] b.t = "MultiPoint" -> multiPointCrosses(b.v, Geom("Polygon", poly))
      [] b.t = "LineString" -> lineStringCrossesPolygonArea(b.v, poly)
      [] b.t = "MultiLineString" ->
            \E j \in 1..Len(b.v) : lineStringCrossesPolygonArea(b.v[j], poly)
      [] OTHER -> FALSE

crossesMultiPolygon(mp, b) ==
    CASE b.t = "Point" -> FALSE
      [] b.t = "MultiPoint" -> multiPointCrosses(b.v, Geom("MultiPolygon", mp))
      [] b.t = "LineString" ->
            \E i \in 1..Len(mp) : lineStringCrossesPolygonArea(b.v, mp[i])
      [] b.t = "MultiLineString" ->
            \E j \in 1..Len(b.v) : \E i \in 1..Len(mp) :
                lineStringCrossesPolygonArea(b.v[j], mp[i])
      [] OTHER -> FALSE

crossesBound(bound, b) ==
    CASE b.t = "Point" -> FALSE
      [] b.t = "MultiPoint" -> multiPointCrosses(b.v, Geom("Bound", bound))
      [] b.t = "LineString" -> lineStringCrossesBound(b.v, bound)
      [] b.t = "MultiLineString" ->
            \E j \in 1..Len(b.v) : lineStringCrossesBound(b.v[j], bound)
      [] OTHER -> FALSE

RECURSIVE Crosses(_, _)
Crosses(a, b) ==
    LET dimA == getGeometryDimension(a)
        dimB == getGeometryDimension(b)
    IN  IF isEmpty(a) \/ isEmpty(b) THEN FALSE
        ELSE IF ~boundingBoxOverlap(a, b) THEN FALSE
        ELSE IF dimA = dimB /\ dimA # 1 THEN FALSE
        ELSE CASE a.t = "Point" -> FALSE
               [] a.t = "MultiPoint" -> crossesMultiPoint(a.v, b)
               [] a.t = "LineString" -> crossesLineString(a.v, b)
               [] a.t = "MultiLineString" -> crossesMultiLineString(a.v, b)
               [] a.t = "Ring" -> crossesRing(a.v, b)
               [] a.t = "Polygon" -> crossesPolygon(a.v, b)
               [] a.t = "MultiPolygon" -> crossesMultiPolygon(a.v, b)
               [] a.t = "Collection" -> \E i \in 1..Len(a.v) : Crosses(a.v[i], b)
               [] a.t = "Bound" -> crossesBound(a.v, b)

---------------------------------------------------------------------------
(* The operands: a catalogue of geometries on the integer grid, the second *)
(* operand translated by a grid vector.                                    *)

Pt(x, y) == <<x * Unit, y * Unit>>

\* The closed ring of the axis-parallel rectangle, from its lower left corner
Rect(x0, y0, x1, y1) ==
    <<Pt(x0, y0), Pt(x1, y0), Pt(x1, y1), Pt(x0, y1), Pt(x0, y0)>>

Catalogue ==
    << Geom("Point", Pt(1, 1)),
       Geom("Point", Pt(2, 0)),
       Geom("MultiPoint", <<>>),
       Geom("MultiPoint", <<Pt(1, 1)>>),
       Geom("MultiPoint", <<Pt(0, 0), Pt(2, 2)>>),
       Geom("MultiPoint", <<Pt(1, 1), Pt(3, 1)>>),
       Geom("LineString", <<>>),
       Geom("LineString", <<Pt(1, 1)>>),
       Geom("LineString", <<Pt(1, 1), Pt(1, 1)>>),
       Geom("LineString", <<Pt(0, 0), Pt(2, 2)>>),
       Geom("LineString", <<Pt(0, 1), Pt(1, 1), Pt(2, 1)>>),
       Geom("LineString", <<Pt(0, 2), Pt(2, 0)>>),
       Geom("LineString", <<Pt(0, 1), Pt(3, 1)>>),
       Geom("MultiLineString", <<>>),
       Geom("MultiLineString", << <<Pt(0, 0), Pt(2, 0)>>, <<Pt(2, 0), Pt(2, 2)>> >>),
       Geom("Ring", <<>>),
       Geom("Ring", Rect(0, 0, 2, 2)),
       Geom("Ring", <<Pt(0, 0), Pt(2, 0), Pt(0, 2), Pt(0, 0)>>),
       Geom("Ring", <<Pt(0, 0), Pt(2, 0), Pt(0, 0)>>),
       Geom("Polygon", <<>>),
       Geom("Polygon", << Rect(0, 0, 2, 2) >>),
       Geom("Polygon", << <<Pt(2, 2), Pt(0, 2), Pt(0, 0), Pt(2, 0), Pt(2, 2)>> >>),
       Geom("Polygon", << Rect(0, 0, 3, 3), Rect(1, 1, 2, 2) >>),
       Geom("Polygon", << Rect(0, 0, 1, 1) >>),
       Geom("MultiPolygon", <<>>),
       Geom("MultiPolygon", << << Rect(0, 0, 1, 1) >>, << Rect(2, 2, 3, 3) >> >>),
       Geom("MultiPolygon", << << Rect(0, 0, 2, 1) >>, << Rect(0, 1, 2, 2) >> >>),
       Geom("Collection", <<>>),
       Geom("Collection", << Geom("Point", Pt(1, 1)) >>),
       Geom("Collection", << Geom("Polygon", << Rect(0, 0, 2, 2) >>) >>),
       Geom("Collection", << Geom("LineString", <<Pt(0, 1), Pt(3, 1)>>) >>),
       Geom("Collection", << Geom("Bound", [Min |-> Pt(2, 2), Max |-> Pt(1, 1)]) >>),
       Geom("Bound", [Min |-> Pt(0, 0), Max |-> Pt(2, 2)]),
       Geom("Bound", [Min |-> Pt(2, 2), Max |-> Pt(0, 0)]),
       Geom("Bound", [Min |-> Pt(1, 1), Max |-> Pt(1, 1)]),
       Geom("Bound", [Min |-> Pt(0, 0), Max |-> Pt(1, 3)]),
       Geom("Polygon", << <<>> >>),
       Geom("Bound", [Min |-> Pt(0, 1), Max |-> Pt(2, 1)]),
       Geom("MultiPolygon", << <<>>, << Rect(0, 0, 2, 2) >> >>),
       Geom("MultiPolygon", << << Rect(0, 0, 2, 2) >>, <<>> >>),
       Geom("MultiPolygon", << << Rect(0, 0, 1, 1) >>, <<>>, << Rect(2, 2, 3, 3) >> >>),
       Geom("MultiPolygon", << <<>> >>),
       Geom("LineString", <<Pt(0, 0), Pt(1, 0), Pt(1, 1), Pt(3, 1)>>),
       Geom("MultiPolygon", << << Rect(0, 0, 2, 2) >>, << Rect(2, 0, 4, 2) >> >>),
       Geom("Polygon", << Rect(0, 0, 3, 3),
                          <<Pt(1, 1), Pt(2, 1), Pt(1, 2), Pt(1, 1)>> >>),
       Geom("Polygon", << Rect(0, 0, 3, 3) >>),
       \* two rectangles side by side, from x = 0 to 1 + 1/42 and from
       \* x = 1 + 1/14 to 3: the gap between them is 1/21 wide
       Geom("MultiPolygon",
            << << <<Pt(0, 0), <<Unit + Unit \div 42, 0>>,
                    <<Unit + Unit \div 42, 2 * Unit>>, Pt(0, 2), Pt(0, 0)>> >>,
               << << <<Unit + Unit \div 14, 0>>, Pt(3, 0), Pt(3, 2),
                     <<Unit + Unit \div 14, 2 * Unit>>,
                     <<Unit + Unit \div 14, 0>> >> >> >>),
       Geom("Polygon", << Rect(0, 1, 4, 2) >>),
       Geom("Polygon", << Rect(1, 0, 2, 3) >>) >>

\* The catalogue's MultiPolygons that hold a Polygon with no ring.  On these
\* the point-in-polygon oracle can be asked about a polygon it cannot index,
\* so they are kept for the calls whose outcome is tracked as true, false
\* or panic (below).
WithEmptyMember ==
    {i \in 1..Len(Catalogue) :
        /\ Catalogue[i].t = "MultiPolygon"
        /\ \E j \in 1..Len(Catalogue[i].v) : Catalogue[i].v[j] = <<>>}

RECURSIVE Translate(_, _)
Translate(g, d) ==
    LET Move(p) == <<p[1] + d[1] * Unit, p[2] + d[2] * Unit>>
        MoveAll(pts) == [i \in 1..Len(pts) |-> Move(pts[i])]
    IN
    CASE g.t = "Point" -> Geom(g.t, Move(g.v))
      [] g.t \in {"MultiPoint", "LineString", "Ring"} -> Geom(g.t, MoveAll(g.v))
      [] g.t \in {"MultiLineString", "Polygon"} ->
            Geom(g.t, [i \in 1..Len(g.v) |-> MoveAll(g.v[i])])
      [] g.t = "MultiPolygon" ->
            Geom(g.t, [i \in 1..Len(g.v) |->
                          [k \in 1..Len(g.v[i]) |-> MoveAll(g.v[i][k])]])
      [] g.t = "Collection" ->
            Geom(g.t, [i \in 1..Len(g.v) |-> Translate(g.v[i], d)])
      [] g.t = "Bound" ->
            Geom(g.t, [Min |-> Move(g.v.Min), Max |-> Move(g.v.Max)])

\* The two operands of the call
A == Catalogue[ia]

B == Translate(Catalogue[ib], sh)

---------------------------------------------------------------------------
(* The state machine: the operands are chosen, then one predicate is       *)
(* called on them and its result observed.                                 *)

Init ==
    /\ ia \in (1..Len(Catalogue)) \ WithEmptyMember
    /\ ib \in (1..Len(Catalogue)) \ WithEmptyMember
    /\ sh \in ((0 - MaxShift)..MaxShift) \X ((0 - MaxShift)..MaxShift)
    /\ onb = TRUE
    /\ op = "none"
    /\ out = FALSE

Call(name, result) ==
    /\ op = "none"
    /\ op' = name
    /\ out' = result
    /\ UNCHANGED <<ia, ib, sh, onb>>

CallIntersects == Call("Intersects", Intersects(A, B))

CallDisjoint == Call("Disjoint", Disjoint(A, B))

CallWithin == Call("Within", Within(A, B))

CallContains == Call("Contains", Contains(A, B))

CallCovers == Call("Covers", Covers(A, B))

CallCoveredBy == Call("CoveredBy", CoveredBy(A, B))

CallTouches == Call("Touches", Touches(A, B))

CallOverlaps == Call("Overlaps", Overlaps(A, B))

CallCrosses == Call("Crosses", Crosses(A, B))

Next ==
    \/ CallIntersects
    \/ CallDisjoint
    \/ CallWithin
    \/ CallContains
    \/ CallCovers
    \/ CallCoveredBy
    \/ CallTouches
    \/ CallOverlaps
    \/ CallCrosses

Spec == Init /\ [][Next]_vars

---------------------------------------------------------------------------
(* Calls that can end in a run-time panic.  planar.PolygonContains reads   *)
(* poly[0]; on a Polygon with no ring that index is out of range.  The     *)
(* operands here are a Point and a MultiPolygon, in either order, and the  *)
(* outcome of a call is "true", "false" or "panic".                        *)

\* The outcome of predicate name on (a, b), one a Point and the other a
\* MultiPolygon, following the source's order of evaluation.
Total(name, a, b) ==
    LET ba == GeomBound(a)
        bb == GeomBound(b)
        p == IF a.t = "Point" THEN a.v ELSE b.v
        mp == IF a.t = "Point" THEN b.v ELSE a.v
        Neg(r) == IF r = "panic" THEN "panic"
                  ELSE IF r = "true" THEN "false" ELSE "true"
        \* for poly in mp: if planar.PolygonContains(poly, p) ||
        \*                    pointOnPolygonBoundary(p, poly) return true
        RECURSIVE closure(_)
        closure(j) ==
            IF j > Len(mp) THEN "false"
            ELSE IF Len(mp[j]) = 0 THEN "panic"
            ELSE IF InPolygonClosure(p, mp[j]) THEN "true"
            ELSE closure(j + 1)
        \* for poly in mp: if pointInPolygonInterior(p, poly) return true
        RECURSIVE interior(_)
        interior(j) ==
            IF j > Len(mp) THEN "false"
            ELSE IF Len(mp[j]) = 0 THEN "panic"
            ELSE IF pointInPolygonInterior(p, mp[j]) THEN "true"
            ELSE interior(j + 1)
        \* for poly in mp: if polygonInteriorIntersects(poly, p) return true
        \* (which returns false on a polygon with no ring)
        RECURSIVE guarded(_)
        guarded(j) ==
            IF j > Len(mp) THEN "false"
            ELSE IF Len(mp[j]) = 0 THEN guarded(j + 1)
            ELSE IF pointInPolygonInterior(p, mp[j]) THEN "true"
            ELSE guarded(j + 1)
        intersects ==
            IF ~boundingBoxOverlap(a, b) THEN "false"
            ELSE IF isEmpty(a) \/ isEmpty(b) THEN "false"
            ELSE closure(1)
        within(x, y, bx, by) ==
            IF isEmpty(x) \/ isEmpty(y) THEN "false"
            ELSE IF \/ bx.Min[1] < by.Min[1] \/ bx.Max[1] > by.Max[1]
                    \/ bx.Min[2] < by.Min[2] \/ bx.Max[2] > by.Max[2]
            THEN "false"
            ELSE IF x.t = "Point" THEN interior(1)
            ELSE "false"
        covers(x, y, bx, by) ==
            IF isEmpty(x) \/ isEmpty(y) THEN "false"
            ELSE IF \/ by.Min[1] < bx.Min[1] \/ by.Max[1] > bx.Max[1]
                    \/ by.Min[2] < bx.Min[2] \/ by.Max[2] > bx.Max[2]
            THEN "false"
            ELSE IF x.t = "MultiPolygon" THEN closure(1)
            ELSE "false"
        touches ==
            IF isEmpty(a) \/ isEmpty(b) THEN "false"
            ELSE IF ~boundingBoxOverlap(a, b) THEN "false"
            ELSE IF intersects # "true" THEN intersects
            ELSE IF a.t = "Point" THEN Neg(interior(1))
            ELSE Neg(guarded(1))
    IN  CASE name = "Intersects" -> intersects
          [] name = "Disjoint" -> Neg(intersects)
          [] name = "Within" -> within(a, b, ba, bb)
          [] name = "Contains" -> within(b, a, bb, ba)
          [] name = "Covers" -> covers(a, b, ba, bb)
          [] name = "CoveredBy" -> covers(b, a, bb, ba)
          [] name = "Touches" -> touches
          [] name \in {"Overlaps", "Crosses"} -> "false"

TotalInit ==
    /\ ia \in 1..Len(Catalogue)
    /\ ib \in 1..Len(Catalogue)
    /\ {Catalogue[ia].t, Catalogue[ib].t} = {"Point", "MultiPolygon"}
    /\ sh \in ((0 - MaxShift)..MaxShift) \X ((0 - MaxShift)..MaxShift)
    /\ onb = TRUE
    /\ op = "none"
    /\ out = "none"

TotalCall(name) ==
    /\ op = "none"
    /\ op' = name
    /\ out' = Total(name, A, B)
    /\ UNCHANGED <<ia, ib, sh, onb>>

TotalNext ==
    \/ TotalCall("Intersects")
    \/ TotalCall("Disjoint")
    \/ TotalCall("Within")
    \/ TotalCall("Contains")
    \/ TotalCall("Covers")
    \/ TotalCall("CoveredBy")
    \/ TotalCall("Touches")
    \/ TotalCall("Overlaps")
    \/ TotalCall("Crosses")

TotalSpec == TotalInit /\ [][TotalNext]_vars

---------------------------------------------------------------------------
(* Properties of the predicates, each stated on the state after one call:  *)
(* op names the predicate called on (A, B) and out is what it returned.    *)

\* The geometries a claim about "non-empty" operands speaks of: nothing
\* empty at any level, and every line string has at least two vertices.
RECURSIVE WellFormed(_)
WellFormed(g) ==
    CASE g.t = "LineString" -> Len(g.v) >= 2
      [] g.t = "MultiLineString" ->
            Len(g.v) > 0 /\ \A i \in 1..Len(g.v) : Len(g.v[i]) >= 2
      [] g.t = "Collection" ->
            Len(g.v) > 0 /\ \A i \in 1..Len(g.v) : WellFormed(g.v[i])
      [] OTHER -> ~isEmpty(g)

\* C1: Disjoint(a, b) is the exact negation of Intersects(a, b), for every
\* pair of variants, empty geometries included.
C1_DisjointNegatesIntersects ==
    op = "Disjoint" => out = ~Intersects(A, B)

\* Disjoint was called with an empty first operand whose bounding box
\* overlaps the second operand's, and answered true.
C1_Witness ==
    /\ op = "Disjoint"
    /\ out = TRUE
    /\ isEmpty(A)
    /\ ~isEmpty(B)
    /\ boundingBoxOverlap(A, B)

\* C2: Contains(a, b) = Within(b, a) and CoveredBy(a, b) = Covers(b, a).
C2_ConversePairs ==
    /\ op = "Contains" => out = Within(B, A)
    /\ op = "CoveredBy" => out = Covers(B, A)

\* Contains was called, answered true, and the unswapped Within(a, b) is
\* false: a polygon containing a point.
C2_Witness ==
    /\ op = "Contains"
    /\ out = TRUE
    /\ ~Within(A, B)
    /\ A.t = "Polygon"
    /\ B.t = "Point"

\* C3: Intersects is symmetric: Intersects(a, b) = Intersects(b, a) for
\* every pair of variants, Bound, Ring and Collection operands included.
C3_IntersectsSymmetric ==
    op = "Intersects" => out = Intersects(B, A)

\* Intersects(line string, Collection holding a Bound with Min beyond Max)
\* answered true while the swapped call answers false.
C3_Asymmetric ==
    /\ op = "Intersects"
    /\ A.t = "LineString"
    /\ B.t = "Collection"
    /\ out = TRUE
    /\ ~Intersects(B, A)

\* C4: Touches is symmetric for non-empty geometries (line strings with at
\* least two vertices, repeated consecutive vertices allowed).
C4_TouchesSymmetric ==
    (op = "Touches" /\ WellFormed(A) /\ WellFormed(B))
        => out = Touches(B, A)

\* Touches(line string with a repeated vertex, line string through that
\* vertex) answered true while the swapped call answers false.
C4_Asymmetric ==
    /\ op = "Touches"
    /\ A.t = "LineString" /\ Len(A.v) = 2 /\ A.v[1] = A.v[2]
    /\ B.t = "LineString" /\ Len(B.v) >= 2
    /\ Intersects(A, B)
    /\ out # Touches(B, A)

\* C5: Overlaps is symmetric, also when exactly one operand is a
\* Collection or a Bound.
C5_OverlapsSymmetric ==
    (op = "Overlaps" /\ WellFormed(A) /\ WellFormed(B))
        => out = Overlaps(B, A)

\* Overlaps(Collection holding a polygon, polygon) answered true while the
\* swapped call answers false.
C5_Asymmetric ==
    /\ op = "Overlaps"
    /\ A.t = "Collection" /\ WellFormed(A)
    /\ B.t = "Polygon" /\ WellFormed(B)
    /\ out = TRUE
    /\ ~Overlaps(B, A)

\* C6: Crosses is symmetric, also when exactly one operand is a Collection
\* and for a MultiPoint against a line or an area in either order.
C6_CrossesSymmetric ==
    (op = "Crosses" /\ WellFormed(A) /\ WellFormed(B))
        => out = Crosses(B, A)

\* Crosses(Collection holding a line string, polygon) answered true while
\* the swapped call answers false.
C6_Asymmetric ==
    /\ op = "Crosses"
    /\ A.t = "Collection" /\ WellFormed(A)
    /\ B.t = "Polygon" /\ WellFormed(B)
    /\ out = TRUE
    /\ ~Crosses(B, A)

\* C7: Within(a, b) implies Covers(b, a), Collection, Multi* and Bound
\* operands included.
C7_WithinImpliesCovers ==
    (op = "Within" /\ out = TRUE) => Covers(B, A)

\* Within(Collection holding a point, line string through the point)
\* answered true while Covers(line string, Collection) answers false.
C7_Uncovered ==
    /\ op = "Within"
    /\ out = TRUE
    /\ A.t = "Collection" /\ WellFormed(A)
    /\ B.t = "LineString" /\ WellFormed(B)
    /\ ~Covers(B, A)

C9_TouchesExcludesOverlaps ==
    (op = "Touches" /\ out = TRUE /\ WellFormed(A) /\ WellFormed(B))
        => ~Overlaps(A, B)

\* Touches(ring, polygon) answered true for two squares whose interiors
\* overlap, and Overlaps answers true for the same pair.
C9_Both ==
    /\ op = "Touches"
    /\ out = TRUE
    /\ A.t = "Ring" /\ WellFormed(A)
    /\ B.t = "Polygon" /\ WellFormed(B)
    /\ Overlaps(A, B)

\* C10: Touches and Crosses are never both true for the same pair,
\* LineString x Ring and MultiPoint x LineString included.
C10_TouchesExcludesCrosses ==
    (op = "Crosses" /\ out = TRUE /\ WellFormed(A) /\ WellFormed(B))
        => ~Touches(A, B)

\* Crosses(line string, ring) answered true and Touches answers true for
\* the same pair.
C10_Both ==
    /\ op = "Crosses"
    /\ out = TRUE
    /\ A.t = "LineString" /\ WellFormed(A)
    /\ B.t = "Ring" /\ WellFormed(B)
    /\ Touches(A, B)

\* The two operands are the same geometry.
SameOperand == ia = ib /\ sh = <<0, 0>>

\* C11: Within is reflexive: Within(a, a) = true for every non-empty
\* geometry a of every variant.
C11_WithinReflexive ==
    (op = "Within" /\ SameOperand /\ WellFormed(A)) => out = TRUE

\* Within(ring, the same ring) was called on a closed ring of four or more
\* vertices and answered false.
C11_RingNotWithinItself ==
    /\ op = "Within"
    /\ SameOperand
    /\ A.t = "Ring" /\ Len(A.v) >= 4 /\ A.v[1] = A.v[Len(A.v)]
    /\ out = FALSE

\* C12: Covers is reflexive: Covers(a, a) = true for every non-empty
\* geometry a of every variant, Collection included.
C12_CoversReflexive ==
    (op = "Covers" /\ SameOperand /\ WellFormed(A)) => out = TRUE

\* Covers(Collection, the same Collection) was called on a Collection
\* holding one point and answered false.
C12_CollectionNotCoveringItself ==
    /\ op = "Covers"
    /\ SameOperand
    /\ A.t = "Collection" /\ Len(A.v) = 1 /\ A.v[1].t = "Point"
    /\ out = FALSE

\* C13: Touches and Overlaps are irreflexive: Touches(a, a) = false and
\* Overlaps(a, a) = false for every non-empty geometry a, a Bound whose
\* min equals its max on an axis included.
C13_TouchesOverlapsIrreflexive ==
    (op \in {"Touches", "Overlaps"} /\ SameOperand /\ WellFormed(A))
        => out = FALSE

\* Touches(Bound, the same Bound) was called on a Bound that is flat on
\* the y axis only and answered true.
C13_FlatBoundTouchesItself ==
    /\ op = "Touches"
    /\ SameOperand
    /\ A.t = "Bound"
    /\ A.v.Min[1] < A.v.Max[1] /\ A.v.Min[2] = A.v.Max[2]
    /\ out = TRUE

\* An empty operand: a MultiPoint, LineString, MultiLineString, Ring,
\* MultiPolygon or Collection of length 0, a Polygon with no ring or with
\* an empty first ring, a Bound with min beyond max.
EmptyOperand(g) ==
    CASE g.t = "Point" -> FALSE
      [] g.t = "Polygon" -> g.v = <<>> \/ g.v[1] = <<>>
      [] g.t = "Bound" ->
            g.v.Min[1] > g.v.Max[1] \/ g.v.Min[2] > g.v.Max[2]
      [] OTHER -> g.v = <<>>

\* C14: if either operand is empty, Disjoint returns true and each of the
\* other eight predicates returns false, whatever the other operand is.
C14_EmptyOperand ==
    (op # "none" /\ (EmptyOperand(A) \/ EmptyOperand(B)))
        => out = (op = "Disjoint")

\* Intersects was called on a polygon and an inverted Bound whose corners
\* span the polygon, and answered false.
C14_Witness ==
    /\ op = "Intersects"
    /\ A.t = "Polygon" /\ ~EmptyOperand(A)
    /\ B.t = "Bound" /\ EmptyOperand(B)
    /\ boundingBoxOverlap(A, B)
    /\ out = FALSE

\* A degenerate operand: a Ring with fewer than four vertices, a Polygon
\* whose exterior ring is empty, a LineString with fewer than two points.
Degenerate(g) ==
    CASE g.t = "Ring" -> Len(g.v) < 4
      [] g.t = "Polygon" -> g.v # <<>> /\ g.v[1] = <<>>
      [] g.t = "LineString" -> Len(g.v) < 2
      [] OTHER -> FALSE

\* C15: degenerate operands are treated as empty: if either operand is
\* degenerate, Within, Contains, Covers, Intersects, Crosses, Overlaps and
\* Touches return false and Disjoint returns true.
C15_DegenerateAsEmpty ==
    (/\ op \in {"Within", "Contains", "Covers", "Intersects", "Crosses",
                "Overlaps", "Touches", "Disjoint"}
     /\ (Degenerate(A) \/ Degenerate(B)))
        => out = (op = "Disjoint")

\* Intersects(point, line string of one vertex equal to the point)
\* answered true.
C15_OnePointLineStringIntersects ==
    /\ op = "Intersects"
    /\ A.t = "Point"
    /\ B.t = "LineString" /\ Len(B.v) = 1 /\ B.v[1] = A.v
    /\ out = TRUE

\* Where no member polygon is empty, the tracked outcome is the boolean the
\* predicate returns.
TotalAgrees ==
    LET S(x) == IF x THEN "true" ELSE "false"
        NoEmpty == ia \notin WithEmptyMember /\ ib \notin WithEmptyMember
    IN  /\ (op = "Intersects" /\ NoEmpty) => out = S(Intersects(A, B))
        /\ (op = "Disjoint" /\ NoEmpty) => out = S(Disjoint(A, B))
        /\ (op = "Within" /\ NoEmpty) => out = S(Within(A, B))
        /\ (op = "Contains" /\ NoEmpty) => out = S(Contains(A, B))
        /\ (op = "Covers" /\ NoEmpty) => out = S(Covers(A, B))
        /\ (op = "CoveredBy" /\ NoEmpty) => out = S(CoveredBy(A, B))
        /\ (op = "Touches" /\ NoEmpty) => out = S(Touches(A, B))
        /\ (op = "Overlaps" /\ NoEmpty) => out = S(Overlaps(A, B))
        /\ (op = "Crosses" /\ NoEmpty) => out = S(Crosses(A, B))

\* C16: every predicate is total: it returns true or false and never
\* reaches a run-time error, also on a non-empty MultiPolygon that holds an
\* empty Polygon member.
C16_Total ==
    op # "none" => out \in {"true", "false"}

\* Intersects(point, MultiPolygon whose first member has no ring) was
\* called with the point in the MultiPolygon's bounding box and panicked.
C16_Panic ==
    /\ op = "Intersects"
    /\ A.t = "Point"
    /\ B.t = "MultiPolygon" /\ Len(B.v) > 1 /\ B.v[1] = <<>>
    /\ boundingBoxOverlap(A, B)
    /\ out = "panic"

\* A Bound of positive width and height.
NonDegenerateBound(g) ==
    g.t = "Bound" /\ g.v.Min[1] < g.v.Max[1] /\ g.v.Min[2] < g.v.Max[2]

\* The rectangular Polygon with the corners of Bound g.
AsPolygon(g) == Geom("Polygon", boundToPolygon(g.v))

\* C17: a Bound behaves exactly like the rectangular Polygon with the same
\* four corners: for every non-degenerate Bound, every other operand and each
\* of the nine predicates P, P(Bound, g) = P(boundToPolygon(Bound), g) and
\* P(g, Bound) = P(g, boundToPolygon(Bound)).
C17_BoundAsPolygon ==
    LET Same(x, y) ==
            /\ op = "Intersects" => out = Intersects(x, y)
            /\ op = "Disjoint" => out = Disjoint(x, y)
            /\ op = "Within" => out = Within(x, y)
            /\ op = "Contains" => out = Contains(x, y)
            /\ op = "Covers" => out = Covers(x, y)
            /\ op = "CoveredBy" => out = CoveredBy(x, y)
            /\ op = "Touches" => out = Touches(x, y)
            /\ op = "Overlaps" => out = Overlaps(x, y)
            /\ op = "Crosses" => out = Crosses(x, y)
    IN  /\ (op # "none" /\ NonDegenerateBound(A)) => Same(AsPolygon(A), B)
        /\ (op # "none" /\ NonDegenerateBound(B)) => Same(A, AsPolygon(B))

\* Crosses was called on a MultiPoint and a non-degenerate Bound and returned
\* true, and it returns false on the MultiPoint and the Bound's rectangle.
C17_BoundDiffers ==
    /\ op = "Crosses" /\ A.t = "MultiPoint" /\ NonDegenerateBound(B)
    /\ out = TRUE
    /\ ~Crosses(A, AsPolygon(B))

\* A hole-free Polygon whose ring is an axis-parallel rectangle of positive
\* area: its boundary and interior are read off its corners.
Rectangle(g) ==
    /\ g.t = "Polygon" /\ Len(g.v) = 1 /\ Len(g.v[1]) = 5
    /\ g.v[1][1] = g.v[1][5]
    /\ LET b == GeomBound(g)
       IN  /\ b.Min[1] < b.Max[1] /\ b.Min[2] < b.Max[2]
           /\ {g.v[1][i] : i \in 1..4} =
                  {<<b.Min[1], b.Min[2]>>, <<b.Max[1], b.Min[2]>>,
                   <<b.Max[1], b.Max[2]>>, <<b.Min[1], b.Max[2]>>}

\* Point p lies strictly inside rectangle g.
StrictlyInside(p, g) ==
    LET b == GeomBound(g)
    IN  /\ b.Min[1] < p[1] /\ p[1] < b.Max[1]
        /\ b.Min[2] < p[2] /\ p[2] < b.Max[2]

\* Point p lies on an edge or a vertex of rectangle g.
OnEdgeOrVertex(p, g) ==
    LET b == GeomBound(g)
    IN  /\ b.Min[1] <= p[1] /\ p[1] <= b.Max[1]
        /\ b.Min[2] <= p[2] /\ p[2] <= b.Max[2]
        /\ ~StrictlyInside(p, g)

\* C18: boundary versus interior for a point and a hole-free polygon: for a
\* point p on an edge or a vertex of S, Within(p, S) is false, Covers(S, p)
\* is true and Touches(p, S) is true; for p strictly inside S, Within(p, S)
\* is true, Covers(S, p) is true and Touches(p, S) is false; for p outside S
\* all three are false.
C18_PointAndPolygon ==
    /\ (op = "Within" /\ A.t = "Point" /\ Rectangle(B))
           => out = StrictlyInside(A.v, B)
    /\ (op = "Touches" /\ A.t = "Point" /\ Rectangle(B))
           => out = OnEdgeOrVertex(A.v, B)
    /\ (op = "Covers" /\ Rectangle(A) /\ B.t = "Point")
           => out = (StrictlyInside(B.v, A) \/ OnEdgeOrVertex(B.v, A))

\* Touches was called on a point and a polygon with the point on the
\* polygon's edge, not at a vertex, and returned true.
C18_PointOnEdge ==
    /\ op = "Touches" /\ A.t = "Point" /\ Rectangle(B)
    /\ OnEdgeOrVertex(A.v, B)
    /\ \A i \in 1..4 : B.v[1][i] # A.v
    /\ out = TRUE

\* Rectangles g and h have disjoint interiors and share a boundary segment
\* of positive length: a whole edge or part of one.
ShareOnlyAnEdge(g, h) ==
    LET b == GeomBound(g)
        c == GeomBound(h)
        Abut(k) == b.Max[k] = c.Min[k] \/ c.Max[k] = b.Min[k]
        Lap(k) == b.Min[k] < c.Max[k] /\ c.Min[k] < b.Max[k]
    IN  (Abut(1) /\ Lap(2)) \/ (Abut(2) /\ Lap(1))

SegmentsOf(g) ==
    LET Of(ls) == {<<ls[i], ls[i + 1]>> : i \in 1..(Len(ls) - 1)}
    IN  IF g.t = "LineString" THEN Of(g.v)
        ELSE UNION {Of(g.v[k]) : k \in 1..Len(g.v)}

\* Twice the signed area of the triangle a, b, c.
Area2(a, b, c) ==
    (b[1] - a[1]) * (c[2] - a[2]) - (b[2] - a[2]) * (c[1] - a[1])

\* Segments s and t properly cross: the end points of each lie strictly on
\* opposite sides of the other.
ProperlyCross(s, t) ==
    LET Opposite(x, y) == (x < 0 /\ y > 0) \/ (x > 0 /\ y < 0)
    IN  /\ Opposite(Area2(t[1], t[2], s[1]), Area2(t[1], t[2], s[2]))
        /\ Opposite(Area2(s[1], s[2], t[1]), Area2(s[1], s[2], t[2]))

\* Segments s and t lie on one line and share a stretch of positive length.
CollinearOverlap(s, t) ==
    LET Lo(u, k) == IF u[1][k] < u[2][k] THEN u[1][k] ELSE u[2][k]
        Hi(u, k) == IF u[1][k] < u[2][k] THEN u[2][k] ELSE u[1][k]
        Shared(k) ==
            (IF Hi(s, k) < Hi(t, k) THEN Hi(s, k) ELSE Hi(t, k))
                - (IF Lo(s, k) < Lo(t, k) THEN Lo(t, k) ELSE Lo(s, k))
    IN  /\ Area2(t[1], t[2], s[1]) = 0 /\ Area2(t[1], t[2], s[2]) = 0
        /\ Area2(s[1], s[2], t[1]) = 0 /\ Area2(s[1], s[2], t[2]) = 0
        /\ Shared(1) > 0 \/ Shared(2) > 0

RectangleParts(g) ==
    CASE g.t = "Bound" -> {g.v}
      [] g.t = "Ring" -> {GeomBound(g)}
      [] g.t = "Polygon" -> {GeomBound(g)}
      [] g.t = "MultiPolygon" ->
            {PolygonBound(g.v[k]) : k \in 1..Len(g.v)}

\* g is an area made of rectangles of positive width and height.
RectangularArea(g) ==
    CASE g.t = "Bound" -> NonDegenerateBound(g)
      [] g.t = "Ring" -> Rectangle(Geom("Polygon", <<g.v>>))
      [] g.t = "Polygon" -> Rectangle(g)
      [] g.t = "MultiPolygon" ->
            /\ Len(g.v) > 0
            /\ \A k \in 1..Len(g.v) : Rectangle(Geom("Polygon", g.v[k]))
      [] OTHER -> FALSE

\* g is a line with at least one segment of positive length.
ProperLine(g) ==
    /\ g.t \in {"LineString", "MultiLineString"}
    /\ SegmentsOf(g) # {}
    /\ \A s \in SegmentsOf(g) : s[1] # s[2]

\* The boundary of a line: the end points of its open components, those that
\* end an even number of components left out (the mod-2 rule).
LineEnds(g) ==
    LET Parts == IF g.t = "LineString" THEN <<g.v>> ELSE g.v
        Open == {k \in 1..Len(Parts) :
                    Len(Parts[k]) >= 2 /\ Parts[k][1] # Parts[k][Len(Parts[k])]}
        Ends(p) == Cardinality({k \in Open : Parts[k][1] = p})
                       + Cardinality({k \in Open : Parts[k][Len(Parts[k])] = p})
    IN  {p \in UNION {{Parts[k][1], Parts[k][Len(Parts[k])]} : k \in Open} :
            Ends(p) % 2 = 1}

\* Point p lies on segment s, end points included.
OnSegment(p, s) ==
    /\ Area2(s[1], s[2], p) = 0
    /\ (s[1][1] <= p[1] /\ p[1] <= s[2][1]) \/ (s[2][1] <= p[1] /\ p[1] <= s[1][1])
    /\ (s[1][2] <= p[2] /\ p[2] <= s[2][2]) \/ (s[2][2] <= p[2] /\ p[2] <= s[1][2])

\* Point p lies in the closure of g, a proper line or a rectangular area.
InClosureOf(p, g) ==
    IF ProperLine(g) THEN \E s \in SegmentsOf(g) : OnSegment(p, s)
    ELSE \E b \in RectangleParts(g) :
            /\ b.Min[1] <= p[1] /\ p[1] <= b.Max[1]
            /\ b.Min[2] <= p[2] /\ p[2] <= b.Max[2]

\* Point p lies in the interior of g: on a proper line and not one of its end
\* points; or, for a rectangular area, with all four quadrants around p
\* inside some part (an interior point of the union of the parts).
InInteriorOf(p, g) ==
    IF ProperLine(g) THEN InClosureOf(p, g) /\ p \notin LineEnds(g)
    ELSE \A d \in {<<1, 1>>, <<1, -1>>, <<-1, 1>>, <<-1, -1>>} :
            \E b \in RectangleParts(g) :
                \A k \in 1..2 :
                    /\ LexSign(p[k] - b.Min[k], d[k]) >= 0
                    /\ LexSign(p[k] - b.Max[k], d[k]) <= 0

\* C21: Crosses for a MultiPoint against a line or an area b (LineString,
\* MultiLineString, Ring, Polygon, MultiPolygon or Bound): points of mp that
\* lie only on the boundary of b do not count as inside; Crosses(mp, b) is
\* true only if some point of mp lies in the strict interior of b and some
\* point of mp lies outside b.
C21_BoundaryNotInside ==
    (/\ op = "Crosses" /\ A.t = "MultiPoint"
     /\ ProperLine(B) \/ RectangularArea(B)
     /\ out = TRUE) =>
        /\ \E p \in Points(A.v) : InInteriorOf(p, B)
        /\ \E p \in Points(A.v) : ~InClosureOf(p, B)

\* Crosses was called on a MultiPoint and a line or an area, no point of the
\* MultiPoint in the interior of the second operand and one on its boundary,
\* and returned true.
C21_BoundaryCounted ==
    /\ op = "Crosses" /\ A.t = "MultiPoint"
    /\ ProperLine(B) \/ RectangularArea(B)
    /\ \A p \in Points(A.v) : ~InInteriorOf(p, B)
    /\ \E p \in Points(A.v) : InClosureOf(p, B)
    /\ out = TRUE

\* Closed segments s and t have a point in common.
SegmentsMeet(s, t) ==
    \/ ProperlyCross(s, t)
    \/ OnSegment(s[1], t) \/ OnSegment(s[2], t)
    \/ OnSegment(t[1], s) \/ OnSegment(t[2], s)

\* g is a MultiPolygon of two rectangles that share a boundary edge, or part
\* of one, and have disjoint interiors.
TwoTouchingRectangles(g) ==
    /\ g.t = "MultiPolygon" /\ Len(g.v) = 2
    /\ Rectangle(Geom("Polygon", g.v[1])) /\ Rectangle(Geom("Polygon", g.v[2]))
    /\ ShareOnlyAnEdge(Geom("Polygon", g.v[1]), Geom("Polygon", g.v[2]))

\* The stretch of boundary shared by the two rectangles of g, as a segment.
SharedEdge(g) ==
    LET b == PolygonBound(g.v[1])
        c == PolygonBound(g.v[2])
    IN  << <<max(b.Min[1], c.Min[1]), max(b.Min[2], c.Min[2])>>,
           <<min(b.Max[1], c.Max[1]), min(b.Max[2], c.Max[2])>> >>

\* Every point of segment s lies in one of the two touching rectangles of g:
\* both ends in one rectangle, or one end in each and s passing through the
\* shared edge.
SegmentInUnion(s, g) ==
    LET In(p, k) == BoundContains(PolygonBound(g.v[k]), p)
    IN  \/ \E k \in 1..2 : In(s[1], k) /\ In(s[2], k)
        \/ /\ \E k \in 1..2 : In(s[1], k)
           /\ \E k \in 1..2 : In(s[2], k)
           /\ SegmentsMeet(s, SharedEdge(g))

\* LineString ls spans the two touching rectangles of g: it stays inside
\* their union, has a vertex in each rectangle that is not in the other, and
\* has a vertex or a segment midpoint strictly inside one of them.
SpansTouchingComponents(ls, g) ==
    LET In(p, k) == BoundContains(PolygonBound(g.v[k]), p)
        Strict(p) == \E k \in 1..2 : StrictlyInside(p, Geom("Polygon", g.v[k]))
    IN  /\ Len(ls.v) >= 2
        /\ \A s \in SegmentsOf(ls) : SegmentInUnion(s, g)
        /\ \E i \in 1..Len(ls.v) : In(ls.v[i], 1) /\ ~In(ls.v[i], 2)
        /\ \E i \in 1..Len(ls.v) : In(ls.v[i], 2) /\ ~In(ls.v[i], 1)
        /\ \/ \E i \in 1..Len(ls.v) : Strict(ls.v[i])
           \/ \E s \in SegmentsOf(ls) : Strict(Mid(s[1], s[2]))

\* C22: a line spanning touching components is within the MultiPolygon: for a
\* MultiPolygon whose two hole-free component polygons share a boundary edge,
\* and a LineString that crosses the shared edge, stays inside the union of
\* the two components and has at least one vertex or segment midpoint
\* strictly inside a component, Within(line, multipolygon) = true.
C22_SpanningLineWithin ==
    (/\ op = "Within" /\ A.t = "LineString"
     /\ TwoTouchingRectangles(B)
     /\ SpansTouchingComponents(A, B)) => out = TRUE

\* Within was called on a one-segment horizontal LineString and two
\* rectangles side by side, the line crossing their shared edge, and
\* returned true.
C22_HorizontalSpan ==
    /\ op = "Within" /\ A.t = "LineString" /\ Len(A.v) = 2
    /\ A.v[1][2] = A.v[2][2]
    /\ TwoTouchingRectangles(B)
    /\ SpansTouchingComponents(A, B)
    /\ out = TRUE

\* Every vertex of rectangle g lies in the closure of rectangle h, no edge of
\* g properly crosses an edge of h, and the centre of g, one of its vertices
\* or one of its edge midpoints lies strictly inside h.
InsideWithContact(g, h) ==
    /\ \A i \in 1..Len(g.v[1]) :
           StrictlyInside(g.v[1][i], h) \/ OnEdgeOrVertex(g.v[1][i], h)
    /\ \A s \in SegmentsOf(g) : \A t \in SegmentsOf(h) : ~ProperlyCross(s, t)
    /\ \/ StrictlyInside(Mid(GeomBound(g).Min, GeomBound(g).Max), h)
       \/ \E i \in 1..Len(g.v[1]) : StrictlyInside(g.v[1][i], h)
       \/ \E s \in SegmentsOf(g) : StrictlyInside(Mid(s[1], s[2]), h)

\* C23: polygon-in-polygon Within accepts boundary contact: for hole-free
\* polygons a and b, Within(a, b) is true whenever every vertex of a lies in
\* the closure of b, no segment of a properly crosses a boundary segment of b
\* and a has a witness point (centroid, vertex or edge midpoint) strictly
\* inside b; this includes a polygon that lies inside b and shares part of an
\* edge with b.
C23_WithinWithContact ==
    (/\ op = "Within" /\ Rectangle(A) /\ Rectangle(B)
     /\ InsideWithContact(A, B)) => out = TRUE

\* Within was called on a polygon that lies inside a larger one and shares
\* part of an edge with it, and returned false.
C23_SharedEdgeRejected ==
    /\ op = "Within" /\ Rectangle(A) /\ Rectangle(B)
    /\ InsideWithContact(A, B)
    /\ GeomBound(A) # GeomBound(B)
    /\ \E s \in SegmentsOf(A) : \E t \in SegmentsOf(B) : CollinearOverlap(s, t)
    /\ out = FALSE

\* Probe points for regions whose edges all run along grid lines or along
\* diagonals of grid squares: four points in every grid square that meets the
\* bound of g, one inside each of the four triangles the square's diagonals
\* cut it into.  No probe lies on an edge, and every region bounded by such
\* edges that has an interior point inside the bound of g holds a probe.
GridProbes(g) ==
    LET b == GeomBound(g)
        Q == Unit \div 4
    IN  {<<i * Unit + o[1] * Q, j * Unit + o[2] * Q>> :
            i \in (b.Min[1] \div Unit)..(b.Max[1] \div Unit),
            j \in (b.Min[2] \div Unit)..(b.Max[2] \div Unit),
            o \in {<<2, 1>>, <<2, 3>>, <<1, 2>>, <<3, 2>>}}

\* A Polygon with an exterior ring of at least four points.
ProperPolygon(g) == g.t = "Polygon" /\ Len(g.v) > 0 /\ Len(g.v[1]) >= 4

\* Probe q, on no edge, lies in the region of polygon poly: inside the
\* exterior ring and inside no hole.
ProbeInRegion(q, poly) ==
    /\ RingContains(poly[1], q)
    /\ \A k \in 2..Len(poly) : ~RingContains(poly[k], q)

\* Some point of the region of polygon g lies strictly inside a hole of
\* polygon h.
ReachesIntoHole(g, h) ==
    \E q \in GridProbes(h) :
        /\ ProbeInRegion(q, g.v)
        /\ \E k \in 2..Len(h.v) : RingContains(h.v[k], q)

\* C24: Within rejects anything that reaches into a hole: for polygons a and
\* b where b has one or more holes, Within(a, b) = false whenever some point
\* of a's region lies strictly inside a hole of b, including the case where a
\* and b have the same exterior ring and the same number of holes but the
\* holes are in different places.
C24_HoleRejects ==
    (/\ op = "Within" /\ ProperPolygon(A) /\ ProperPolygon(B)
     /\ Len(B.v) > 1
     /\ ReachesIntoHole(A, B)) => out = FALSE

\* Within was called on two polygons with the same exterior ring and one
\* hole each, part of the first polygon's region inside the hole of the
\* second, and returned true.
C24_SameExteriorOtherHole ==
    /\ op = "Within" /\ ProperPolygon(A) /\ ProperPolygon(B)
    /\ A.v[1] = B.v[1] /\ Len(A.v) = 2 /\ Len(B.v) = 2
    /\ ReachesIntoHole(A, B)
    /\ out = TRUE

\* Every point of the region of polygon h lies in the closure of polygon g.
RegionCovered(g, h) ==
    \A q \in GridProbes(h) : ProbeInRegion(q, h.v) => ProbeInRegion(q, g.v)

\* C25: Covers is sound for areas with holes: for polygons a and b,
\* Covers(a, b) = true only if every point of b's region lies in the closure
\* of a; in particular Covers(a, b) = false when a has a hole that lies
\* strictly inside b's region.
C25_CoversSound ==
    (/\ op = "Covers" /\ ProperPolygon(A) /\ ProperPolygon(B)
     /\ out = TRUE) => RegionCovered(A, B)

\* Covers was called on a polygon with a hole and a hole-free polygon, the
\* hole strictly inside the second polygon's region, and returned true.
C25_HoleNotCovered ==
    /\ op = "Covers" /\ ProperPolygon(A) /\ Len(A.v) = 2
    /\ Rectangle(B)
    /\ \A i \in 1..Len(A.v[2]) : StrictlyInside(A.v[2][i], B)
    /\ ~RegionCovered(A, B)
    /\ out = TRUE

\* Segment s runs along a grid line or along the diagonal of grid squares,
\* between two distinct grid points.
AlongGrid(s) ==
    LET dx == Abs(s[2][1] - s[1][1])
        dy == Abs(s[2][2] - s[1][2])
    IN  /\ s[1] # s[2]
        /\ \A k \in 1..2 : s[1][k] % Unit = 0 /\ s[2][k] % Unit = 0
        /\ dx = 0 \/ dy = 0 \/ dx = dy

\* Points of segment s a quarter of a grid step apart, end points included.
\* A polygon whose edges run along grid lines or diagonals meets a segment
\* of that kind in stretches that begin and end at half steps, so a stretch
\* of s outside the polygon's closure holds one of these points.
QuarterPoints(s) ==
    LET n == max(Abs(s[2][1] - s[1][1]), Abs(s[2][2] - s[1][2])) \div Unit
    IN  {<<s[1][1] + (k * (s[2][1] - s[1][1])) \div (4 * n),
           s[1][2] + (k * (s[2][2] - s[1][2])) \div (4 * n)>> : k \in 0..(4 * n)}

\* Point p lies in the closure of the region of polygon poly: on an edge of
\* one of its rings, or inside the exterior ring and inside no hole.
InRegionClosure(p, poly) ==
    \/ \E s \in SegmentsOf(Geom("Polygon", poly)) : OnSegment(p, s)
    \/ ProbeInRegion(p, poly)

\* C26: line-in-area Within is sound with vertex and midpoint witnesses: for
\* every LineString a and every simple Polygon b (convex or concave, with or
\* without holes), Within(a, b) = true only if every point of every segment
\* of a, not just its vertices and segment midpoints, lies in the closure of
\* b.
C26_LineWithinSound ==
    (/\ op = "Within" /\ A.t = "LineString" /\ ProperPolygon(B)
     /\ \A s \in SegmentsOf(A) : AlongGrid(s)
     /\ out = TRUE) =>
        \A s \in SegmentsOf(A) : \A p \in QuarterPoints(s) :
            InRegionClosure(p, B.v)

\* Within was called on a LineString and a polygon with a hole, the vertices
\* and segment midpoints of the line in the polygon's closure and another
\* point of the line inside the hole, and returned true.
C26_ThroughHole ==
    /\ op = "Within" /\ A.t = "LineString" /\ ProperPolygon(B)
    /\ Len(B.v) = 2
    /\ \A s \in SegmentsOf(A) : AlongGrid(s)
    /\ \A s \in SegmentsOf(A) :
           /\ InRegionClosure(s[1], B.v) /\ InRegionClosure(s[2], B.v)
           /\ InRegionClosure(Mid(s[1], s[2]), B.v)
    /\ \E s \in SegmentsOf(A) : \E p \in QuarterPoints(s) :
           ~InRegionClosure(p, B.v) /\ RingContains(B.v[2], p)
    /\ out = TRUE

\* Some stretch of segment s, which runs along a grid line or a diagonal,
\* lies outside every rectangle of area g.  The rectangles' sides cut s into
\* stretches, each wholly inside or wholly outside a given rectangle; Gap(u,
\* v) says the stretch between two neighbouring cuts is outside all of them.
UncoveredStretch(s, g) ==
    LET k == IF s[1][1] # s[2][1] THEN 1 ELSE 2
        o == 3 - k
        Slope == IF s[1][o] = s[2][o] THEN 0
                 ELSE IF (s[2][o] > s[1][o]) = (s[2][k] > s[1][k]) THEN 1 ELSE -1
        At(x) == IF k = 1 THEN <<x, s[1][2] + Slope * (x - s[1][1])>>
                          ELSE <<s[1][1] + Slope * (x - s[1][2]), x>>
        lo == min(s[1][k], s[2][k])
        hi == max(s[1][k], s[2][k])
        Sides == UNION {{b.Min[k], b.Max[k]} : b \in RectangleParts(g)}
                     \cup (IF Slope = 0 THEN {}
                           ELSE UNION {{s[1][k] + Slope * (b.Min[o] - s[1][o]),
                                        s[1][k] + Slope * (b.Max[o] - s[1][o])} :
                                       b \in RectangleParts(g)})
        Cuts == {lo, hi} \cup {c \in Sides : lo < c /\ c < hi}
        Gap(u, v) ==
            /\ u < v /\ \A w \in Cuts : ~(u < w /\ w < v)
            /\ ~InClosureOf(At((u + v) \div 2), g)
    IN  \E u \in Cuts : \E v \in Cuts : Gap(u, v)

\* The same, for a stretch shorter than 1/numSamples of the segment.
NarrowUncoveredStretch(s, g) ==
    LET k == IF s[1][1] # s[2][1] THEN 1 ELSE 2
        b1 == PolygonBound(g.v[1])
        b2 == PolygonBound(g.v[2])
    IN  /\ UncoveredStretch(s, g)
        /\ Len(g.v) = 2
        /\ b1.Max[k] < b2.Min[k]
        /\ numSamples * (b2.Min[k] - b1.Max[k]) < Abs(s[2][k] - s[1][k])

\* C27: line-in-MultiPolygon Within detects gaps between components: for
\* every LineString ls and MultiPolygon mp, Within(ls, mp) = false whenever
\* some point of ls lies outside the closure of every component polygon (a
\* gap between components), including gaps narrower than 1/50 of a segment's
\* length and horizontal segments (zero y-extent), for which the per-segment
\* uniform samples and the polygon-vertex y-level probes are the only checks.
C27_GapRejects ==
    (/\ op = "Within" /\ A.t = "LineString"
     /\ B.t = "MultiPolygon" /\ RectangularArea(B)
     /\ \A s \in SegmentsOf(A) : AlongGrid(s)
     /\ \E s \in SegmentsOf(A) : UncoveredStretch(s, B)) => out = FALSE

\* Within was called on a horizontal one-segment LineString and two
\* rectangles with a gap between them narrower than 1/50 of the segment, the
\* segment running across the gap, and returned true.
C27_NarrowGapMissed ==
    /\ op = "Within" /\ A.t = "LineString" /\ Len(A.v) = 2
    /\ B.t = "MultiPolygon" /\ RectangularArea(B)
    /\ AlongGrid(<<A.v[1], A.v[2]>>) /\ A.v[1][2] = A.v[2][2]
    /\ NarrowUncoveredStretch(<<A.v[1], A.v[2]>>, B)
    /\ out = TRUE

\* Rectangles g and h cross in a plus shape: g reaches beyond h on both
\* sides along one axis and h beyond g on both sides along the other, so no
\* vertex of either lies inside the other.
PlusShape(g, h) ==
    LET b == GeomBound(g)
        c == GeomBound(h)
    IN  \E k \in 1..2 :
            /\ b.Min[k] < c.Min[k] /\ c.Max[k] < b.Max[k]
            /\ c.Min[3 - k] < b.Min[3 - k] /\ b.Max[3 - k] < c.Max[3 - k]

\* C28: area overlap means shared interior without coverage: for hole-free
\* polygons a and b (including pairs in which no vertex of either lies
\* strictly inside the other, such as two rectangles crossing in a plus
\* shape), Overlaps(a, b) is true exactly when the interiors intersect
\* (interiorsIntersect(a, b)) and neither Covers(a, b) nor Covers(b, a) holds.
C28_AreaOverlap ==
    (op = "Overlaps" /\ Rectangle(A) /\ Rectangle(B)) =>
        out = (/\ interiorsIntersect(A, B)
               /\ ~Covers(A, B)
               /\ ~Covers(B, A))

\* Overlaps was called on two rectangles crossing in a plus shape, whose
\* interiors intersect and of which neither covers the other, and returned
\* false.
C28_PlusShapeMissed ==
    /\ op = "Overlaps" /\ Rectangle(A) /\ Rectangle(B)
    /\ PlusShape(A, B)
    /\ interiorsIntersect(A, B) /\ ~Covers(A, B) /\ ~Covers(B, A)
    /\ out = FALSE

\* C29: Within and Crosses are mutually exclusive: for every pair of
\* geometries a, b of any variants (including a LineString against a
\* MultiPolygon whose components touch, and against a Collection),
\* Within(a, b) and Crosses(a, b) are never both true.
C29_WithinExcludesCrosses ==
    /\ (op = "Within" /\ out = TRUE) => ~Crosses(A, B)
    /\ (op = "Crosses" /\ out = TRUE) => ~Within(A, B)

\* Within was called on a LineString and a MultiPolygon of two touching
\* components and returned true, and Crosses returns true on the same pair.
C29_WithinAndCrosses ==
    /\ op = "Within" /\ A.t = "LineString" /\ TwoTouchingRectangles(B)
    /\ out = TRUE
    /\ Crosses(A, B)

---------------------------------------------------------------------------
(* The same call under two oracles.  The point-in-ring oracle may answer   *)
(* either way for a point exactly on a ring's boundary; onb is its answer  *)
(* there.  A predicate is called, the oracle is replaced by one with the   *)
(* opposite boundary answer (the two agreeing everywhere off the           *)
(* boundary), and the same predicate is called again on the same operands. *)
(* Here out is the sequence of the results returned so far.                *)

OracleInit ==
    /\ ia \in (1..Len(Catalogue)) \ WithEmptyMember
    /\ ib \in (1..Len(Catalogue)) \ WithEmptyMember
    /\ sh \in ((0 - MaxShift)..MaxShift) \X ((0 - MaxShift)..MaxShift)
    /\ onb = TRUE
    /\ op = "none"
    /\ out = <<>>

\* The first call of a predicate, or its second call after the oracle was
\* replaced.
OracleCall(name, result) ==
    /\ \/ op = "none" /\ onb = TRUE
       \/ op = name /\ onb = FALSE /\ Len(out) = 1
    /\ op' = name
    /\ out' = Append(out, result)
    /\ UNCHANGED <<ia, ib, sh, onb>>

ReplaceOracle ==
    /\ op # "none" /\ onb = TRUE
    /\ onb' = FALSE
    /\ UNCHANGED <<ia, ib, sh, op, out>>

OracleNext ==
    \/ OracleCall("Intersects", Intersects(A, B))
    \/ OracleCall("Disjoint", Disjoint(A, B))
    \/ OracleCall("Within", Within(A, B))
    \/ OracleCall("Contains", Contains(A, B))
    \/ OracleCall("Covers", Covers(A, B))
    \/ OracleCall("CoveredBy", CoveredBy(A, B))
    \/ OracleCall("Touches", Touches(A, B))
    \/ OracleCall("Overlaps", Overlaps(A, B))
    \/ OracleCall("Crosses", Crosses(A, B))
    \/ ReplaceOracle

OracleSpec == OracleInit /\ [][OracleNext]_vars

\* C30: predicate results do not depend on the oracle's boundary behaviour:
\* for every pair of geometries a, b and each of the nine predicates,
\* evaluating the call with a point-in-ring / point-in-polygon oracle that
\* answers true for points exactly on a ring boundary and with one that
\* answers false for them (the two oracles agreeing everywhere else) gives
\* the same boolean result.
C30_OracleIndependent ==
    Len(out) = 2 => out[1] = out[2]

\* Intersects was called twice on a LineString and a Ring, a vertex of the
\* line on the ring's boundary, and returned true under the oracle that
\* answers true on the boundary and false under the other.
C30_OracleDecides ==
    /\ op = "Intersects" /\ A.t = "LineString" /\ B.t = "Ring"
    /\ \E i \in 1..Len(A.v) : pointOnRingBoundary(A.v[i], B.v)
    /\ out = <<TRUE, FALSE>>

=============================================================================
